---- MODULE Spec2Model ----
(***************************************************************************)
(* The query generation, validation and execution pipeline of SQL_RAG:     *)
(* RAGOrchestrator.process_query with its bounded generate/validate loop,  *)
(* SQLValidator's lexical rules, SQLParser.parse and the RateLimiter of    *)
(* the LLM client.  Spec is one orchestrator serving calls of              *)
(* process_query, SpecReplay a call made twice, SpecValidator the          *)
(* validator rules on their own and SpecLimiter threads calling            *)
(* RateLimiter.acquire.                                                    *)
(*                                                                         *)
(* Text is modelled at character level: a Python str is a sequence of      *)
(* one-character strings over an ASCII alphabet, so that the regular       *)
(* expressions and substring tests of the validator and the parser are     *)
(* computed as the code computes them.  An exception message (str(e)) and  *)
(* a prompt are sequences of text pieces.  Durations are not modelled.     *)
(***************************************************************************)
EXTENDS Integers, Sequences, FiniteSets, TLC

VARIABLES
    table_names,    \* SQLValidator._table_names
    column_map,     \* SQLValidator._column_map
    pc,             \* position of the process_query call
    history,        \* argument 'history' of process_query
    context_str,    \* local 'context_str' of process_query
    prompt,         \* local 'prompt' of process_query
    result,         \* the result dict of the call
    current_try,    \* local of _generate_sql
    last_error,     \* local of _generate_sql
    sql_query,      \* local of _generate_sql / process_query
    raised,         \* exception that left process_query, if any
    gen_calls,      \* history: prompts passed to llm_client.generate
    val_calls,      \* history: validator rule invocations
    exec_calls,     \* history: SQL strings passed to QueryExecutor.execute
    attempts,       \* history: outcome of each loop iteration
    inputs,         \* history: what each collaborator call returned or raised
    v_query,        \* argument 'query' of the validator rule under check
    v_verdict,      \* what that rule did: returned True or raised
    prev_run,       \* the call of process_query that is made again, if any
    tokens,         \* RateLimiter.tokens, in units of 1/period of a token
    last_refill,    \* RateLimiter.last_refill
    lock,           \* RateLimiter.lock: the thread that holds it
    now,            \* time.time(), in units of the 0.1 s sleep of acquire
    acq_pc,         \* position of each thread in acquire
    acq,            \* blocking, timeout and start_time of each thread's call
    acq_result,     \* what each thread's last call of acquire returned
    granted,        \* history: how many calls of acquire returned True
    client,         \* the call of OllamaClient.generate in progress
    parked          \* the call whose thread is suspended, and its frame

vars == <<table_names, column_map, pc, history, context_str, prompt,
          result, current_try, last_error, sql_query, raised, gen_calls,
          val_calls, exec_calls, attempts, inputs,
          v_query, v_verdict, prev_run, tokens, last_refill, lock, now,
          acq_pc, acq, acq_result, granted, client, parked>>

\* the variables of a call of process_query
callVars == <<pc, history, context_str, prompt, result, current_try,
              last_error, sql_query, raised, gen_calls, val_calls,
              exec_calls, attempts, inputs>>

\* the variables of a call of a validator rule
validatorVars == <<v_query, v_verdict>>

\* the rate limiter and the threads that call acquire
limiterVars == <<tokens, last_refill, lock, now, acq_pc, acq, acq_result,
                 granted>>

\* what the steps of process_query leave alone
auxVars == <<validatorVars, prev_run, limiterVars, client, parked>>

\* what the steps of acquire leave alone
pipelineVars == <<table_names, column_map, callVars, validatorVars, prev_run,
                  client, parked>>

-----------------------------------------------------------------------------
(* Optional values: None and Some(v).                                      *)
None == <<>>

Some(v) == <<v>>

Range(s) == {s[i] : i \in 1..Len(s)}

-----------------------------------------------------------------------------
(* Characters and str methods.                                             *)

\* the backquote character of a markdown fence
BQ == "bq"

LowerLetters ==
    <<"a", "b", "c", "d", "e", "f", "g", "h", "i", "j", "k", "l", "m",
      "n", "o", "p", "q", "r", "s", "t", "u", "v", "w", "x", "y", "z">>

UpperLetters ==
    <<"A", "B", "C", "D", "E", "F", "G", "H", "I", "J", "K", "L", "M",
      "N", "O", "P", "Q", "R", "S", "T", "U", "V", "W", "X", "Y", "Z">>

Digits == {"0", "1", "2", "3", "4", "5", "6", "7", "8", "9"}

\* str.upper() on one character
UpperChar(c) ==
    IF \E i \in 1..26 : LowerLetters[i] = c
    THEN UpperLetters[CHOOSE i \in 1..26 : LowerLetters[i] = c]
    ELSE c

\* str.lower() on one character
LowerChar(c) ==
    IF \E i \in 1..26 : UpperLetters[i] = c
    THEN LowerLetters[CHOOSE i \in 1..26 : UpperLetters[i] = c]
    ELSE c

\* str.upper()
Upper(s) == [i \in 1..Len(s) |-> UpperChar(s[i])]

\* str.lower()
Lower(s) == [i \in 1..Len(s) |-> LowerChar(s[i])]

\* regex \s and str.strip() whitespace
IsSpace(c) == c \in {" ", "\n", "\t"}

\* regex \w
IsWordChar(c) ==
    c \in Range(LowerLetters) \cup Range(UpperLetters) \cup Digits \cup {"_"}

\* regex class [A-Z0-9_]
IsIdentChar(c) == c \in Range(UpperLetters) \cup Digits \cup {"_"}

\* s[i-1:j-1] of Python, as positions i..j of a 1-based sequence
Slice(s, i, j) == IF j < i THEN <<>> ELSE SubSeq(s, i, j)

\* str.strip()
Strip(s) ==
    LET keep == {i \in 1..Len(s) : ~IsSpace(s[i])}
    IN  IF keep = {} THEN <<>>
        ELSE Slice(s, CHOOSE i \in keep : \A k \in keep : i <= k,
                      CHOOSE j \in keep : \A k \in keep : k <= j)

\* w occurs in s at position i
MatchAt(s, i, w) ==
    /\ i >= 1
    /\ i + Len(w) - 1 <= Len(s)
    /\ \A k \in 1..Len(w) : s[i + k - 1] = w[k]

\* 'w in s'
Contains(s, w) == \E i \in 1..(Len(s) + 1) : MatchAt(s, i, w)

\* str.startswith
StartsWith(s, w) == MatchAt(s, 1, w)

\* regex \b between positions i-1 and i
WordBoundary(s, i) ==
    LET left  == i - 1 >= 1 /\ i - 1 <= Len(s) /\ IsWordChar(s[i - 1])
        right == i >= 1 /\ i <= Len(s) /\ IsWordChar(s[i])
    IN  left # right

\* start positions of the matches of \bw\b in s
WordMatches(s, w) ==
    {i \in 1..Len(s) : /\ MatchAt(s, i, w)
                       /\ WordBoundary(s, i)
                       /\ WordBoundary(s, i + Len(w))}

\* positions of the first occurrence of w in s at or after position i
FindFrom(s, i, w) == {j \in i..(Len(s) + 1) : MatchAt(s, j, w)}

Min(S) == CHOOSE x \in S : \A y \in S : x <= y

\* the text given to str() for an integer
Str(n) == ToString(n)

-----------------------------------------------------------------------------
(* SQLValidator (src/src/validation/validator.py).  A rule is modelled by  *)
(* the set of SecurityError messages it can raise on a query; the empty    *)
(* set means that the rule returns True.                                   *)

KW_UPDATE ==
    <<"U", "P", "D", "A", "T", "E">>
KW_FROM ==
    <<"F", "R", "O", "M">>
KW_JOIN ==
    <<"J", "O", "I", "N">>
KW_SELECT ==
    <<"S", "E", "L", "E", "C", "T">>
KW_TOP ==
    <<"T", "O", "P">>
KW_LIMIT ==
    <<"L", "I", "M", "I", "T">>
KW_COUNT ==
    <<"C", "O", "U", "N", "T", "(">>
NO_SQL ==
    <<"N", "O", "_", "S", "Q", "L">>

PROHIBITED_KEYWORDS ==
    {<<"D", "R", "O", "P">>,
     <<"A", "L", "T", "E", "R">>,
     <<"C", "R", "E", "A", "T", "E">>,
     <<"T", "R", "U", "N", "C", "A", "T", "E">>,
     <<"I", "N", "S", "E", "R", "T">>,
     KW_UPDATE,
     <<"D", "E", "L", "E", "T", "E">>,
     <<"M", "E", "R", "G", "E">>,
     <<"G", "R", "A", "N", "T">>,
     <<"R", "E", "V", "O", "K", "E">>,
     <<"X", "P", "_", "C", "M", "D", "S", "H", "E", "L", "L">>,
     <<"S", "P", "_", "E", "X", "E", "C", "U", "T", "E", "S", "Q", "L">>}

\* join_count > 5
MaxJoins == 5

\* select_count > 3
MaxSelects == 3

\* validate_query: blank text, then the prohibited keywords as whole words
\* of the upper-cased text.  PROHIBITED_KEYWORDS is a Python set, iterated
\* in an order the language does not fix: any keyword that occurs can be
\* the one reported.
\* the keywords looked for anywhere in the text, inside words too
validate_query_substring(query) ==
    IF query = <<>> \/ Strip(query) = <<>>
    THEN {<<"Query cannot be empty.">>}
    ELSE {<<"Query contains prohibited keyword: ">> \o keyword :
            keyword \in {k \in PROHIBITED_KEYWORDS :
                           Contains(Upper(query), k)}}

validate_query(query) ==
    IF query = <<>> \/ Strip(query) = <<>>
    THEN {<<"Query cannot be empty.">>}
    ELSE {<<"Query contains prohibited keyword: ">> \o keyword :
            keyword \in {k \in PROHIBITED_KEYWORDS :
                           WordMatches(Upper(query), k) # {}}}

\* end of the run of [A-Z0-9_] characters that starts at position m
IdentEnd(s, m) ==
    CHOOSE e \in m..Len(s) :
        /\ \A k \in m..e : IsIdentChar(s[k])
        /\ (e = Len(s) \/ ~IsIdentChar(s[e + 1]))

\* first position at or after k that holds no whitespace (Len(s)+1 if none)
SkipSpaces(s, k) ==
    Min({m \in k..(Len(s) + 1) : m = Len(s) + 1 \/ ~IsSpace(s[m])})

\* (?:FROM|JOIN)\s+([A-Z0-9_]+) matches at position j
TableMatchAt(s, j) ==
    /\ (MatchAt(s, j, KW_FROM) \/ MatchAt(s, j, KW_JOIN))
    /\ SkipSpaces(s, j + 4) > j + 4
    /\ SkipSpaces(s, j + 4) <= Len(s)
    /\ IsIdentChar(s[SkipSpaces(s, j + 4)])

\* re.findall of that pattern, scanning from position i
RECURSIVE FindTables(_, _)
FindTables(s, i) ==
    LET starts == {j \in i..Len(s) : TableMatchAt(s, j)}
    IN  IF starts = {} THEN <<>>
        ELSE LET j == Min(starts)
                 m == SkipSpaces(s, j + 4)
                 e == IdentEnd(s, m)
             IN  <<Slice(s, m, e)>> \o FindTables(s, e + 1)

\* validate_schema against the table set tn
validate_schema(tn, query) ==
    IF tn = {} THEN {}
    ELSE LET matches == FindTables(Upper(query), 1)
             bad     == {i \in 1..Len(matches) : matches[i] \notin tn}
         IN  IF bad = {} THEN {}
             ELSE {<<"Query references invalid table: ">>
                     \o matches[Min(bad)]}

\* ceilings that already reject a query that reaches them
validate_complexity_inclusive(query) ==
    LET join_count   == Cardinality(WordMatches(Upper(query), KW_JOIN))
        select_count == Cardinality(WordMatches(Upper(query), KW_SELECT))
    IN  IF join_count >= MaxJoins
        THEN {<<"Query too complex: ", Str(join_count), " JOINs (max 5)">>}
        ELSE IF select_count >= MaxSelects
        THEN {<<"Query too complex: ", Str(select_count),
                " SELECT statements (max 3)">>}
        ELSE {}

\* validate_complexity
validate_complexity(query) ==
    LET join_count   == Cardinality(WordMatches(Upper(query), KW_JOIN))
        select_count == Cardinality(WordMatches(Upper(query), KW_SELECT))
    IN  IF join_count > MaxJoins
        THEN {<<"Query too complex: ", Str(join_count), " JOINs (max 5)">>}
        ELSE IF select_count > MaxSelects
        THEN {<<"Query too complex: ", Str(select_count),
                " SELECT statements (max 3)">>}
        ELSE {}

\* enforce_result_limit
enforce_result_limit(query) ==
    LET has_top   == Contains(Upper(query), KW_TOP)
        has_limit == Contains(Upper(query), KW_LIMIT)
        is_count  == Contains(Upper(query), KW_COUNT)
    IN  IF ~(has_top \/ has_limit \/ is_count)
        THEN {<<"Query must include a result limit (TOP or LIMIT) ",
                "or be an aggregation.">>}
        ELSE {}

-----------------------------------------------------------------------------
(* SQLParser.parse (src/src/llm/sql_parser.py).                            *)

FenceSql == <<BQ, BQ, BQ, "s", "q", "l", "\n">>

FenceOpen == <<BQ, BQ, BQ, "\n">>

FenceClose == <<"\n", BQ, BQ, BQ>>

SqlQueryPrefix == <<"s", "q", "l", " ", "q", "u", "e", "r", "y", ":">>

\* cleaned[10:]
SqlQueryPrefixLen == 10

\* re.search(open + r"(.*?)\n```", s, re.DOTALL): None, or Some(group(1))
FencedBlock(s, open) ==
    LET starts == {i \in 1..Len(s) :
                     /\ MatchAt(s, i, open)
                     /\ FindFrom(s, i + Len(open), FenceClose) # {}}
    IN  IF starts = {} THEN None
        ELSE LET i == Min(starts)
                 j == Min(FindFrom(s, i + Len(open), FenceClose))
             IN  Some(Slice(s, i + Len(open), j - 1))

\* re.sub(r"<.*?>", "", s), scanning from position i
RECURSIVE RemoveTags(_, _)
RemoveTags(s, i) ==
    IF i > Len(s) THEN <<>>
    ELSE LET closes == {j \in (i + 1)..Len(s) :
                          /\ s[j] = ">"
                          /\ \A k \in (i + 1)..(j - 1) : s[k] # "\n"}
         IN  IF s[i] = "<" /\ closes # {}
             THEN RemoveTags(s, Min(closes) + 1)
             ELSE <<s[i]>> \o RemoveTags(s, i + 1)

parse(llm_response) ==
    LET sql_match  == FencedBlock(llm_response, FenceSql)
        code_match == FencedBlock(llm_response, FenceOpen)
        stripped   == Strip(llm_response)
        cleaned    == IF StartsWith(Lower(stripped), SqlQueryPrefix)
                      THEN Strip(Slice(stripped, SqlQueryPrefixLen + 1,
                                       Len(stripped)))
                      ELSE stripped
    IN  IF sql_match # None THEN Strip(sql_match[1])
        ELSE IF code_match # None THEN Strip(code_match[1])
        ELSE Strip(RemoveTags(cleaned, 1))

-----------------------------------------------------------------------------
(* Inputs: what the collaborators of the orchestrator hand to it.          *)

\* 'SELECT * FROM patients LIMIT 10'
Resp_select_limit ==
    <<"S", "E", "L", "E", "C", "T", " ", "*", " ", "F", "R", "O", "M",
      " ", "p", "a", "t", "i", "e", "n", "t", "s", " ", "L", "I", "M",
      "I", "T", " ", "1", "0">>
\* 'DROP TABLE patients'
Resp_drop ==
    <<"D", "R", "O", "P", " ", "T", "A", "B", "L", "E", " ", "p", "a",
      "t", "i", "e", "n", "t", "s">>
\* 'no_sql'
Resp_no_sql_lower ==
    <<"n", "o", "_", "s", "q", "l">>
\* 'Show me all patients'
Question_ok ==
    <<"S", "h", "o", "w", " ", "m", "e", " ", "a", "l", "l", " ", "p",
      "a", "t", "i", "e", "n", "t", "s">>
\* 'patients'
Name_patients ==
    <<"p", "a", "t", "i", "e", "n", "t", "s">>
\* 'Visits'
Name_visits ==
    <<"V", "i", "s", "i", "t", "s">>
\* 'patients.id'
Name_patients_id ==
    <<"p", "a", "t", "i", "e", "n", "t", "s", ".", "i", "d">>

\* the contents an LLM response can have
Responses ==
    {Resp_select_limit,
     Resp_drop,
     \* 'NO_SQL'
     <<"N", "O", "_", "S", "Q", "L">>,
     Resp_no_sql_lower,
     \* 'SQL Query: NO_SQL'
     <<"S", "Q", "L", " ", "Q", "u", "e", "r", "y", ":", " ", "N", "O",
       "_", "S", "Q", "L">>,
     \* a sql fence holding 'SELECT COUNT(*) FROM visits'
     <<BQ, BQ, BQ, "s", "q", "l", "\n", "S", "E", "L", "E", "C", "T", " ",
       "C", "O", "U", "N", "T", "(", "*", ")", " ", "F", "R", "O", "M",
       " ", "v", "i", "s", "i", "t", "s", "\n", BQ, BQ, BQ>>,
     \* 'SELECT * FROM hackers LIMIT 5'
     <<"S", "E", "L", "E", "C", "T", " ", "*", " ", "F", "R", "O", "M",
       " ", "h", "a", "c", "k", "e", "r", "s", " ", "L", "I", "M", "I",
       "T", " ", "5">>,
     \* 'SELECT * FROM patients'
     <<"S", "E", "L", "E", "C", "T", " ", "*", " ", "F", "R", "O", "M",
       " ", "p", "a", "t", "i", "e", "n", "t", "s">>,
     \* '  '
     <<" ", " ">>,
     \* 'select top 5 update_date from Visits'
     <<"s", "e", "l", "e", "c", "t", " ", "t", "o", "p", " ", "5", " ",
       "u", "p", "d", "a", "t", "e", "_", "d", "a", "t", "e", " ", "f",
       "r", "o", "m", " ", "V", "i", "s", "i", "t", "s">>,
     \* 'DROP TABLE t; DELETE FROM visits'
     <<"D", "R", "O", "P", " ", "T", "A", "B", "L", "E", " ", "t", ";",
       " ", "D", "E", "L", "E", "T", "E", " ", "F", "R", "O", "M", " ",
       "v", "i", "s", "i", "t", "s">>}

\* LLMConfig.retry_attempts
retry_attempts == 3

\* str(e) of the LLMGenerationError raised by OllamaClient.generate
GenerationErrors ==
    {<<"Rate limit exceeded">>,
     <<"Failed to generate response from Ollama after ",
       Str(retry_attempts), " attempts: ", "connection refused">>}

\* str(e) of another exception raised inside the try block of the loop;
\* an exception made without arguments has the empty text
UnexpectedErrors ==
    {<<"Expecting value: line 1 column 1 (char 0)">>, <<>>}

\* what one call of llm_client.generate and the parsing of its response do
GenerateOutcomes ==
    {[kind |-> "response", content |-> c, model |-> "test-model"] :
        c \in Responses}
    \cup {[kind |-> "LLMGenerationError", msg |-> m] : m \in GenerationErrors}
    \cup {[kind |-> "Exception", msg |-> m] : m \in UnexpectedErrors}

\* QueryResult values an execution can return
QueryResults ==
    {[columns |-> <<"id", "name">>,
      rows |-> <<[id |-> 1, name |-> "John Doe"]>>, row_count |-> 1],
     [columns |-> <<"id", "name">>, rows |-> <<>>, row_count |-> 0]}

\* what one call of QueryExecutor.execute does
ExecuteOutcomes ==
    {[kind |-> "result", value |-> r] : r \in QueryResults}
    \cup {[kind |-> "DatabaseError", msg |-> <<"no such column: nme">>],
          [kind |-> "Exception", msg |-> <<"Query timed out">>]}

\* a question longer than the 500 characters build_prompt accepts
MaxQuestionLen == 500

Question_long == [i \in 1..(MaxQuestionLen + 1) |-> "x"]

Questions == {Question_ok, <<" ">>, Question_long}

Message(n) == [role |-> "user", content |-> <<"question ", Str(n)>>]

\* history[-5:]
HistoryWindow == 5

Histories ==
    {None, Some([n \in 1..(HistoryWindow + 1) |-> Message(n)])}

\* what retriever.retrieve returns
DocumentLists ==
    {<<>>,
     <<[type |-> "table", content |-> "patients(id, name)"],
       [type |-> "note", content |-> "one row per patient"]>>}

\* what one call of retriever.retrieve does
RetrieveOutcomes ==
    {[kind |-> "documents", value |-> d] : d \in DocumentLists}
    \cup {[kind |-> "Exception", msg |-> <<"vector store unavailable">>]}

\* what adapter.get_schema() returns at construction
Schemas ==
    {<<>>,
     <<[type |-> "table", name |-> Name_patients, metadata |-> None],
       [type |-> "column", name |-> Name_patients_id,
        metadata |-> Some([table |-> Name_patients])],
       [type |-> "table", name |-> Name_visits, metadata |-> None]>>}

-----------------------------------------------------------------------------
(* SQLValidator.__init__ and _load_from_schema_elements.                   *)

\* element.name.split('.')[-1]
AfterLastDot(name) ==
    LET dots == {i \in 1..Len(name) : name[i] = "."}
    IN  IF dots = {} THEN name
        ELSE Slice(name, (CHOOSE i \in dots : \A k \in dots : k <= i) + 1,
                   Len(name))

\* the state [table_names, column_map] after the first n elements
RECURSIVE LoadFromSchemaElements(_, _)
LoadFromSchemaElements(schema, n) ==
    IF n = 0 THEN [table_names |-> {}, column_map |-> << >>]
    ELSE
      LET prev    == LoadFromSchemaElements(schema, n - 1)
          element == schema[n]
          cm      == prev.column_map
          Put(t, cols) ==
              [k \in DOMAIN cm \cup {t} |-> IF k = t THEN cols ELSE cm[k]]
      IN  IF element.type = "table"
          THEN [table_names |-> prev.table_names \cup {Upper(element.name)},
                column_map  |-> Put(Upper(element.name), {})]
          ELSE IF /\ element.type = "column"
                  /\ element.metadata # None
                  /\ element.metadata[1].table # <<>>
          THEN LET table_name == Upper(element.metadata[1].table)
                   col_name   == Upper(AfterLastDot(element.name))
                   old == IF table_name \in DOMAIN cm
                          THEN cm[table_name] ELSE {}
               IN  [table_names |-> prev.table_names,
                    column_map  |-> Put(table_name, old \cup {col_name})]
          ELSE prev

\* SQLValidator(schema): nothing is loaded from an empty or absent schema
SQLValidatorInit(schema) == LoadFromSchemaElements(schema, Len(schema))

-----------------------------------------------------------------------------
(* ContextRetriever.format_context and PromptBuilder.build_prompt.         *)

FormatDocument(doc) ==
    IF doc.type = "table" THEN <<"Table Schema: ", doc.content>>
    ELSE IF doc.type = "column" THEN <<"Column Description: ", doc.content>>
    ELSE <<doc.content>>

\* "\n\n".join(context_parts)
RECURSIVE format_context(_)
format_context(documents) ==
    IF documents = <<>> THEN <<>>
    ELSE IF Len(documents) = 1 THEN FormatDocument(documents[1])
    ELSE FormatDocument(documents[1]) \o <<"\n\n">>
           \o format_context(Tail(documents))

RECURSIVE JoinLines(_)
JoinLines(lines) ==
    IF lines = <<>> THEN <<>>
    ELSE IF Len(lines) = 1 THEN lines[1]
    ELSE lines[1] \o <<"\n">> \o JoinLines(Tail(lines))

\* PromptBuilder._format_history
format_history(h) ==
    IF h = None \/ h[1] = <<>> THEN <<"No previous conversation.">>
    ELSE LET msgs   == h[1]
             first  == IF Len(msgs) > HistoryWindow
                       THEN Len(msgs) - HistoryWindow + 1 ELSE 1
             recent == SubSeq(msgs, first, Len(msgs))
         IN  JoinLines([i \in 1..Len(recent) |->
                          <<recent[i].role, ": ">> \o recent[i].content])

\* PromptBuilder.dialect
Dialect == "SQLite"

\* build_prompt: None when it raises ValueError, else Some(prompt)
build_prompt(question, ctx, h) ==
    IF question = <<>> \/ Strip(question) = <<>> THEN None
    ELSE IF Len(question) > MaxQuestionLen THEN None
    ELSE Some(<<"<template: role> ", Dialect, " <template: schema> ">>
              \o (IF ctx # <<>> THEN ctx
                  ELSE <<"No schema information provided.">>)
              \o <<" <template: instructions> ", Dialect,
                   " <template: question> ">>
              \o question
              \o <<" <template: history> ">>
              \o format_history(h)
              \o <<" <template: sql query> ">>)

-----------------------------------------------------------------------------
(* RateLimiter (src/src/core/rate_limiter.py).  Time is counted in ticks   *)
(* of 0.1 s, the sleep of acquire.  The token count is a multiple of       *)
(* 1/period, so it is kept as the integer tokens = period * self.tokens:   *)
(* one token is period units and a tick refills max_calls units.           *)

\* the threads that call acquire, and how long the clock runs
NumThreads == 2
MaxTime == 2

\* RateLimiter(max_calls, period): 2 calls per 0.3 s
max_calls == 2
period == 3

\* time.sleep(0.1)
SleepTicks == 1

Threads == 1..NumThreads

NoOwner == 0

\* the arguments of acquire: non-blocking, blocking without timeout,
\* blocking with timeout 0 and with a timeout of one sleep
AcquireCalls ==
    {[blocking |-> FALSE, timeout |-> None],
     [blocking |-> TRUE, timeout |-> None],
     [blocking |-> TRUE, timeout |-> Some(0)],
     [blocking |-> TRUE, timeout |-> Some(1)]}

\* a thread that is not in acquire
NoAcquire == [blocking |-> TRUE, timeout |-> None, start_time |-> 0]

\* a lock that anyone can take while it is held
LockAvailableAlways(owner) == TRUE

\* threading.Lock: 'with self.lock' waits until no thread holds it
LockAvailable(owner) == owner = NoOwner

\* RateLimiter.__init__
RateLimiterInit ==
    /\ tokens = max_calls * period
    /\ last_refill = 0
    /\ lock = NoOwner
    /\ now = 0
    /\ acq_pc = [t \in Threads |-> "idle"]
    /\ acq = [t \in Threads |-> NoAcquire]
    /\ acq_result = [t \in Threads |-> None]
    /\ granted = 0

\* OllamaClient with no call of generate in progress: the position in
\* generate, the loop variable 'attempt', what the call returns or raises,
\* and as history the tokens taken, the requests sent and the backoff
\* waits of the call and the calls, tokens and requests of the run
ClientIdle ==
    [pc |-> "idle", attempt |-> 0, outcome |-> None, tokens |-> 0,
     log |-> <<>>, waits |-> <<>>, calls |-> 0, run_tokens |-> 0,
     run_requests |-> 0]

-----------------------------------------------------------------------------
(* RAGOrchestrator (src/src/core/orchestrator.py).                         *)

\* a budget of one attempt more
max_retries_four == 3 + 1

\* _generate_sql: max_retries = 3
max_retries == 3

\* a counter that lives on from the call before
InitialTryKept(try) == try

\* current_try = 0 (line 119): the counter is a local of _generate_sql
InitialTry(try) == 0

\* the value result["data"] = None
PyNone == [none |-> TRUE]

\* result = {"question": user_question, "steps": []}; keys not yet set
\* are None
NewResult(user_question) ==
    [question |-> user_question, steps |-> <<>>, status |-> None,
     error |-> None, generated_sql |-> None, data |-> None,
     total_duration |-> FALSE]

\* call B not yet made, while the thread of call A is running: the frame
\* of a call that has not started
NotCalled ==
    [id |-> "B",
     locals |->
        [pc |-> "idle", history |-> None, context_str |-> <<>>,
         prompt |-> <<>>, result |-> NewResult(<<>>), current_try |-> 0,
         last_error |-> None, sql_query |-> NO_SQL, raised |-> None,
         gen_calls |-> <<>>, val_calls |-> <<>>, exec_calls |-> <<>>,
         attempts |-> <<>>, inputs |-> <<>>]]

\* a sentinel test that compares the text as it stands
IsSentinelCaseSensitive(sql) == sql = NO_SQL

\* sql_query.upper() == "NO_SQL" (lines 147 and 200)
IsSentinel(sql) == Upper(sql) = NO_SQL

\* 'if last_error:' of the loop
Truthy(opt) == opt # None /\ opt[1] # <<>>

\* a retry that sends the base prompt again
CurrentPromptBaseOnly(base, err) == base

\* a retry that says an attempt failed but not how
CurrentPromptWithoutMessage(base, err) ==
    IF Truthy(err)
    THEN base \o <<"\n\nPrevious attempt failed.">>
              \o <<"\nPlease correct the query.">>
    ELSE base

\* the prompt of one attempt
CurrentPrompt(base, err) ==
    IF Truthy(err)
    THEN base \o <<"\n\nPrevious attempt failed with error: ">> \o err[1]
              \o <<"\nPlease correct the query.">>
    ELSE base

\* a rule chain that leaves out the result-size guard
ValidateSqlWithoutLimit(tn, query) ==
    LET Raise(rules, msgs) ==
            {[rules |-> rules, error |-> Some(m)] : m \in msgs}
        r1 == validate_query(query)
        r2 == validate_schema(tn, query)
        r3 == validate_complexity(query)
    IN  IF r1 # {} THEN Raise(<<"validate_query">>, r1)
        ELSE IF r2 # {}
        THEN Raise(<<"validate_query", "validate_schema">>, r2)
        ELSE IF r3 # {}
        THEN Raise(<<"validate_query", "validate_schema",
                     "validate_complexity">>, r3)
        ELSE {[rules |-> <<"validate_query", "validate_schema",
                           "validate_complexity">>,
               error |-> None]}

\* the result-size guard applied before the other rules
ValidateSqlLimitFirst(tn, query) ==
    LET Raise(rules, msgs) ==
            {[rules |-> rules, error |-> Some(m)] : m \in msgs}
        r1 == validate_query(query)
        r2 == validate_schema(tn, query)
        r3 == validate_complexity(query)
        r4 == enforce_result_limit(query)
    IN  IF r4 # {} THEN Raise(<<"enforce_result_limit">>, r4)
        ELSE IF r1 # {}
        THEN Raise(<<"enforce_result_limit", "validate_query">>, r1)
        ELSE IF r2 # {}
        THEN Raise(<<"enforce_result_limit", "validate_query",
                     "validate_schema">>, r2)
        ELSE IF r3 # {}
        THEN Raise(<<"enforce_result_limit", "validate_query",
                     "validate_schema", "validate_complexity">>, r3)
        ELSE {[rules |-> <<"enforce_result_limit", "validate_query",
                           "validate_schema", "validate_complexity">>,
               error |-> None]}

\* _validate_sql: the rules in call order, up to the first one that raises.
\* Each outcome lists the rules invoked and the SecurityError message, if
\* any.
_validate_sql(tn, query) ==
    LET Raise(rules, msgs) ==
            {[rules |-> rules, error |-> Some(m)] : m \in msgs}
        r1 == validate_query(query)
        r2 == validate_schema(tn, query)
        r3 == validate_complexity(query)
        r4 == enforce_result_limit(query)
    IN  IF r1 # {} THEN Raise(<<"validate_query">>, r1)
        ELSE IF r2 # {}
        THEN Raise(<<"validate_query", "validate_schema">>, r2)
        ELSE IF r3 # {}
        THEN Raise(<<"validate_query", "validate_schema",
                     "validate_complexity">>, r3)
        ELSE IF r4 # {}
        THEN Raise(<<"validate_query", "validate_schema",
                     "validate_complexity", "enforce_result_limit">>, r4)
        ELSE {[rules |-> <<"validate_query", "validate_schema",
                           "validate_complexity", "enforce_result_limit">>,
               error |-> None]}

\* result["error"] set by the handler of each exception class
ErrorText(kind, e) ==
    IF kind = "SecurityError"
    THEN <<"Security Violation after ", Str(max_retries), " attempts: ">>
           \o e
    ELSE IF kind = "LLMGenerationError" THEN <<"Generation failed: ">> \o e
    ELSE <<"Unexpected error: ">> \o e

\* a handler that leaves the status unset when the budget is used up
HandlerForgetsStatus(kind, e, try, res, sql) ==
    IF try = max_retries
    THEN [pc |-> "execute", last_error |-> Some(e), sql_query |-> NO_SQL,
          result |-> res]
    ELSE [pc |-> "generate", last_error |-> Some(e), sql_query |-> sql,
          result |-> res]

\* a handler that gives up at the first failure
HandlerWithoutRetry(kind, e, try, res, sql) ==
    [pc |-> "returned", last_error |-> Some(e), sql_query |-> NO_SQL,
     result |-> [res EXCEPT !.status = Some("error"),
                            !.error = Some(ErrorText(kind, e))]]

\* a handler that asks for another attempt when the budget is used up
HandlerKeepsLooping(kind, e, try, res, sql) ==
    [pc |-> "generate", last_error |-> Some(e), sql_query |-> sql,
     result |-> res]

\* an except clause of the loop: the state after an attempt raised
\* exception 'kind' with message e
Handler(kind, e, try, res, sql) ==
    IF try = max_retries
    THEN [pc |-> "returned", last_error |-> Some(e), sql_query |-> NO_SQL,
          result |-> [res EXCEPT !.status = Some("error"),
                                 !.error = Some(ErrorText(kind, e))]]
    ELSE [pc |-> "generate", last_error |-> Some(e), sql_query |-> sql,
          result |-> res]

\* a break of the loop: _generate_sql returns sql and process_query goes
\* on to _execute_sql unless the status is "error"
Break(res, sql, err) ==
    [pc |-> IF res.status = Some("error") THEN "returned" ELSE "execute",
     last_error |-> err, sql_query |-> sql, result |-> res]

\* a result that keeps the first candidate of the run
SetGeneratedSqlOnce(res, sql) ==
    IF res.generated_sql = None
    THEN [res EXCEPT !.generated_sql = Some(sql)]
    ELSE res

\* result["generated_sql"] = sql_query (line 144)
SetGeneratedSql(res, sql) == [res EXCEPT !.generated_sql = Some(sql)]

\* an execution error reported under a heading
ExecutionErrorTextPrefixed(e) == <<"Query execution failed: ">> \o e

\* result["error"] = str(e) of both handlers of _execute_sql
ExecutionErrorText(e) == e

\* a pipeline that asks for another query when the execution failed
AfterExecuteRetry(o) == IF o.kind = "result" THEN "returned" ELSE "generate"

\* after _execute_sql, process_query returns the result (lines 93-94)
AfterExecute(o) == "returned"

GenerationStep(try, model) ==
    [name |-> <<"generation_try_", Str(try)>>, model |-> model]

Init ==
    /\ \E schema \in Schemas :
          /\ table_names = SQLValidatorInit(schema).table_names
          /\ column_map = SQLValidatorInit(schema).column_map
    /\ pc = "idle"
    /\ history = None
    /\ context_str = <<>>
    /\ prompt = <<>>
    /\ result = NewResult(<<>>)
    /\ current_try = 0
    /\ last_error = None
    /\ sql_query = NO_SQL
    /\ raised = None
    /\ gen_calls = <<>>
    /\ val_calls = <<>>
    /\ exec_calls = <<>>
    /\ attempts = <<>>
    /\ inputs = <<>>
    /\ v_query = <<>>
    /\ v_verdict = None
    /\ prev_run = None
    /\ RateLimiterInit
    /\ client = ClientIdle
    /\ parked = NotCalled

\* the head of process_query (lines 69-73) for a question and a history
StartCall(q, h) ==
    /\ pc \in {"idle", "returned", "raised"}
    /\ result' = NewResult(q)
    /\ history' = h
    /\ pc' = "retrieve"
    /\ context_str' = <<>>
    /\ prompt' = <<>>
    /\ current_try' = InitialTry(current_try)
    /\ last_error' = None
    /\ sql_query' = NO_SQL
    /\ raised' = None
    /\ gen_calls' = <<>>
    /\ val_calls' = <<>>
    /\ exec_calls' = <<>>
    /\ attempts' = <<>>
    /\ inputs' = <<>>
    /\ UNCHANGED <<table_names, column_map>>

\* process_query is called
ProcessQuery ==
    /\ \E q \in Questions, h \in Histories : StartCall(q, h)
    /\ UNCHANGED auxVars

\* a pipeline that goes on without context when the retrieval raised
AfterRetrievalErrorContinue(o) == "prompt"

\* process_query has no handler around _retrieve_context (line 76): an
\* exception of retrieve or format_context leaves the call
AfterRetrievalError(o) == "raised"

\* one call of a collaborator and what it did
Input(call, o) == [call |-> call, outcome |-> o]

\* _retrieve_context when the retriever does o; an exception of the
\* retriever leaves process_query
RetrieveContextWith(o) ==
    /\ pc = "retrieve"
    /\  /\ inputs' = Append(inputs, Input("retrieve", o))
        /\
          IF o.kind = "documents"
          THEN /\ context_str' = format_context(o.value)
               /\ result' = [result EXCEPT !.steps = Append(@,
                                [name |-> <<"retrieval">>,
                                 documents_count |-> Len(o.value)])]
               /\ pc' = "prompt"
               /\ raised' = None
          ELSE /\ raised' = Some([type |-> o.kind, msg |-> o.msg,
                                   phase |-> "retrieve"])
               /\ pc' = AfterRetrievalError(o)
               /\ UNCHANGED <<context_str, result>>
    /\ UNCHANGED <<table_names, column_map, history, prompt, current_try,
                   last_error, sql_query, gen_calls, val_calls, exec_calls,
                   attempts>>
    /\ UNCHANGED auxVars

RetrieveContext == \E o \in RetrieveOutcomes : RetrieveContextWith(o)

\* build_prompt, then the locals of _generate_sql (lines 118-121)
BuildPrompt ==
    /\ pc = "prompt"
    /\ LET p == build_prompt(result.question, context_str, history)
       IN  IF p = None
           THEN /\ raised' = Some([type |-> "ValueError",
                                   msg |-> <<"User question is invalid">>,
                                   phase |-> "prompt"])
                /\ pc' = "raised"
                /\ UNCHANGED prompt
           ELSE /\ prompt' = p[1]
                /\ pc' = "generate"
                /\ raised' = None
    /\ current_try' = InitialTry(current_try)
    /\ last_error' = None
    /\ sql_query' = NO_SQL
    /\ UNCHANGED <<table_names, column_map, history, context_str, result,
                   gen_calls, val_calls, exec_calls, attempts, inputs>>
    /\ UNCHANGED auxVars

\* the state in which the attempt leaves the call
Goto(n) ==
    /\ pc' = n.pc
    /\ last_error' = n.last_error
    /\ sql_query' = n.sql_query
    /\ result' = n.result

Attempt(try, kind, candidate, error) ==
    [try |-> try, kind |-> kind, candidate |-> candidate, error |-> error]

\* one iteration of the while loop of _generate_sql (lines 123-187) when
\* the generator does o; when the loop ends, process_query returns the
\* result of a failed generation (lines 87-88) or goes on to _execute_sql
GenerationAttemptWith(o) ==
    /\ pc = "generate"
    /\ current_try < max_retries
    /\ LET try == current_try + 1
       IN
       /\ current_try' = try
       /\ gen_calls' = Append(gen_calls, CurrentPrompt(prompt, last_error))
       /\
          /\ inputs' = Append(inputs, Input("generate", o))
          /\
            IF o.kind = "response"
            THEN
              LET sql == parse(o.content)
                  res == SetGeneratedSql(
                            [result EXCEPT !.steps =
                                Append(@, GenerationStep(try, o.model))],
                            sql)
              IN  IF IsSentinel(sql)
                  THEN /\ Goto(Break(res, sql, last_error))
                       /\ val_calls' = val_calls
                       /\ attempts' = Append(attempts,
                             Attempt(try, "sentinel", Some(sql), None))
                  ELSE \E v \in _validate_sql(table_names, sql) :
                       /\ val_calls' = val_calls \o
                             [i \in 1..Len(v.rules) |->
                                [rule |-> v.rules[i], query |-> sql,
                                 try |-> try]]
                       /\ IF v.error = None
                          THEN /\ Goto(Break(res, sql, last_error))
                               /\ attempts' = Append(attempts,
                                     Attempt(try, "validated", Some(sql),
                                             None))
                          ELSE /\ Goto(Handler("SecurityError", v.error[1],
                                               try, res, sql))
                               /\ attempts' = Append(attempts,
                                     Attempt(try, "SecurityError", Some(sql),
                                             v.error))
            ELSE /\ Goto(Handler(o.kind, o.msg, try, result, sql_query))
                 /\ val_calls' = val_calls
                 /\ attempts' = Append(attempts,
                       Attempt(try, o.kind, None, Some(o.msg)))
    /\ UNCHANGED <<table_names, column_map, history, context_str, prompt,
                   raised, exec_calls>>
    /\ UNCHANGED auxVars

GenerationAttempt == \E o \in GenerateOutcomes : GenerationAttemptWith(o)

\* _execute_sql (lines 198-237) when the executor does o, then lines 93-94
\* of process_query
ExecuteSqlWith(o) ==
    /\ pc = "execute"
    /\ IF IsSentinel(sql_query)
       THEN /\ result' = [result EXCEPT !.status = Some("no_sql_generated"),
                                        !.data = Some(PyNone),
                                        !.total_duration = TRUE]
            /\ exec_calls' = exec_calls
            /\ inputs' = inputs
            /\ pc' = "returned"
       ELSE
            /\ inputs' = Append(inputs, Input("execute", o))
            /\ exec_calls' = Append(exec_calls,
                                    [sql |-> sql_query, outcome |-> o])
            /\ pc' = AfterExecute(o)
            /\ IF o.kind = "result"
               THEN result' = [result EXCEPT
                      !.status = Some("success"),
                      !.data = Some([columns |-> o.value.columns,
                                     rows |-> o.value.rows,
                                     row_count |-> o.value.row_count]),
                      !.steps = Append(@, [name |-> <<"execution">>]),
                      !.total_duration = TRUE]
               ELSE result' = [result EXCEPT
                      !.status = Some("error"),
                      !.error = Some(ExecutionErrorText(o.msg)),
                      !.steps = Append(@, [name |-> <<"execution">>,
                                           error |-> ExecutionErrorText(o.msg)]),
                      !.total_duration = TRUE]
    /\ UNCHANGED <<table_names, column_map, history, context_str, prompt,
                   current_try, last_error, sql_query, raised, gen_calls,
                   val_calls, attempts>>
    /\ UNCHANGED auxVars

ExecuteSql == \E o \in ExecuteOutcomes : ExecuteSqlWith(o)

Next ==
    \/ ProcessQuery
    \/ RetrieveContext
    \/ BuildPrompt
    \/ GenerationAttempt
    \/ ExecuteSql

Spec == Init /\ [][Next]_vars

\* process_query is sequential code: once called it goes on to its next
\* statement, and a collaborator that is called returns or raises
SpecFair ==
    /\ Spec
    /\ WF_vars(RetrieveContext)
    /\ WF_vars(BuildPrompt)
    /\ WF_vars(GenerationAttempt)
    /\ WF_vars(ExecuteSql)

-----------------------------------------------------------------------------
(* A call of process_query made a second time on the same orchestrator,    *)
(* with the same question and history and with collaborators that behave   *)
(* as they did in the first call.                                          *)

\* what the first call was given and how it ended
RunRecord ==
    [question |-> result.question, history |-> history, inputs |-> inputs,
     pc |-> pc, result |-> result]

\* the calls of one collaborator, in order
CallsOf(log, call) == SelectSeq(log, LAMBDA x : x.call = call)

\* a collaborator answers its n-th call as it answered it before; a call
\* that it did not get before can go any way
NextOutcomes(call, all) ==
    LET n == Len(CallsOf(inputs, call)) + 1
        b == CallsOf(prev_run[1].inputs, call)
    IN  IF n <= Len(b) THEN {b[n].outcome} ELSE all

FirstCall ==
    /\ prev_run = None
    /\ \/ ProcessQuery
       \/ RetrieveContext
       \/ BuildPrompt
       \/ GenerationAttempt
       \/ ExecuteSql

\* process_query is called again with the arguments of the finished call
CallAgain ==
    /\ prev_run = None
    /\ pc \in {"returned", "raised"}
    /\ StartCall(result.question, history)
    /\ prev_run' = Some(RunRecord)
    /\ UNCHANGED <<validatorVars, limiterVars, client, parked>>

SecondCall ==
    /\ prev_run # None
    /\ \/ \E o \in NextOutcomes("retrieve", RetrieveOutcomes) :
             RetrieveContextWith(o)
       \/ BuildPrompt
       \/ \E o \in NextOutcomes("generate", GenerateOutcomes) :
             GenerationAttemptWith(o)
       \/ \E o \in NextOutcomes("execute", ExecuteOutcomes) :
             ExecuteSqlWith(o)

NextReplay ==
    \/ FirstCall
    \/ CallAgain
    \/ SecondCall

SpecReplay == Init /\ [][NextReplay]_vars

-----------------------------------------------------------------------------
(* Two calls of process_query on one orchestrator, A and B, in two threads. *)
(* Call A is first made alone; then it is made again with the same          *)
(* arguments and the same answers of the collaborators while call B runs,   *)
(* the threads taking turns at any point between two steps.                 *)

\* the frame of the call that is running
Locals ==
    [pc |-> pc, history |-> history, context_str |-> context_str,
     prompt |-> prompt, result |-> result, current_try |-> current_try,
     last_error |-> last_error, sql_query |-> sql_query, raised |-> raised,
     gen_calls |-> gen_calls, val_calls |-> val_calls,
     exec_calls |-> exec_calls, attempts |-> attempts, inputs |-> inputs]

\* the call whose thread is running
Running == IF parked.id = "A" THEN "B" ELSE "A"

\* answers of the collaborators in these runs: documents; a query that
\* passes, one that is rejected, a refused token; a result or a database
\* error
Collaborators ==
    [retrieve |-> {o \in RetrieveOutcomes : o.kind = "documents"},
     generate |-> {o \in GenerateOutcomes :
                     \/ /\ o.kind = "response"
                        /\ o.content \in {Resp_select_limit, Resp_drop}
                     \/ /\ o.kind = "LLMGenerationError"
                        /\ o.msg = <<"Rate limit exceeded">>},
     execute |-> {o \in ExecuteOutcomes : o.kind # "Exception"}]

\* one step of the running call
Step ==
    \/ \E o \in Collaborators.retrieve : RetrieveContextWith(o)
    \/ BuildPrompt
    \/ \E o \in Collaborators.generate : GenerationAttemptWith(o)
    \/ \E o \in Collaborators.execute : ExecuteSqlWith(o)

\* call A on its own, from the call to its end
CallAlone ==
    /\ prev_run = None
    /\ \/ /\ pc = "idle"
          /\ StartCall(Question_ok, None)
          /\ UNCHANGED auxVars
       \/ Step

\* a step of call A, made again
CallA ==
    /\ Running = "A"
    /\ SecondCall

\* call B is made, or takes a step
CallB ==
    /\ prev_run # None
    /\ Running = "B"
    /\ \/ /\ pc = "idle"
          /\ \E h \in Histories \ {None} : StartCall(Question_ok, h)
          /\ UNCHANGED auxVars
       \/ Step

\* a result dict kept on the orchestrator and used by every call
SharedResult(own, current) == current

\* result is a local of process_query (line 70): a thread that goes on
\* finds its own
RestoredResult(own, current) == own

\* the running thread is suspended and the other one goes on
Switch ==
    /\ prev_run # None
    /\ parked' = [id |-> Running, locals |-> Locals]
    /\ pc' = parked.locals.pc
    /\ history' = parked.locals.history
    /\ context_str' = parked.locals.context_str
    /\ prompt' = parked.locals.prompt
    /\ result' = RestoredResult(parked.locals.result, result)
    /\ current_try' = parked.locals.current_try
    /\ last_error' = parked.locals.last_error
    /\ sql_query' = parked.locals.sql_query
    /\ raised' = parked.locals.raised
    /\ gen_calls' = parked.locals.gen_calls
    /\ val_calls' = parked.locals.val_calls
    /\ exec_calls' = parked.locals.exec_calls
    /\ attempts' = parked.locals.attempts
    /\ inputs' = parked.locals.inputs
    /\ UNCHANGED <<table_names, column_map, validatorVars, prev_run,
                   limiterVars, client>>

InitConcurrent == Init /\ table_names # {}

NextConcurrent ==
    \/ CallAlone
    \/ CallAgain
    \/ CallA
    \/ CallB
    \/ Switch

SpecConcurrent == InitConcurrent /\ [][NextConcurrent]_vars

-----------------------------------------------------------------------------
(* A call of process_query whose calls of llm_client.generate are taken    *)
(* step by step through OllamaClient.generate                              *)
(* (src/src/llm/ollama_client.py): the rate limiter's answer, then the     *)
(* requests to the backend with their backoff waits.                       *)

\* what requests.post, raise_for_status and response.json do on a request:
\* a response, a requests.RequestException, or an exception of another
\* class
RequestOutcomes ==
    {[kind |-> "response", content |-> c] :
        c \in {Resp_select_limit, Resp_drop, Resp_no_sql_lower}}
    \cup {[kind |-> "RequestException"], [kind |-> "Exception"]}

\* a loop that allows one request more
RetriesExhaustedLate(attempt) == attempt = retry_attempts

\* 'if attempt == self.config.retry_attempts - 1' (line 146)
RetriesExhausted(attempt) == attempt = retry_attempts - 1

\* a retry loop that asks the limiter again before each request
AfterBackoffAcquire(attempt) == "acquire"

\* the for loop goes on to the next request (line 130)
AfterBackoff(attempt) == "request"

\* process_query is called
ClientProcessQuery ==
    /\ \E q \in Questions, h \in {None} : StartCall(q, h)
    /\ client' = ClientIdle
    /\ UNCHANGED <<validatorVars, prev_run, limiterVars, parked>>

\* _generate_sql calls self.llm_client.generate (orchestrator.py:136)
Generate ==
    /\ pc = "generate"
    /\ current_try < max_retries
    /\ client.pc \in {"idle", "done"}
    /\ client.calls = current_try
    /\ client' = [client EXCEPT !.pc = "acquire", !.calls = @ + 1,
                                !.attempt = 0, !.tokens = 0, !.log = <<>>,
                                !.waits = <<>>, !.outcome = None]
    /\ UNCHANGED <<table_names, column_map, callVars, validatorVars,
                   prev_run, limiterVars, parked>>

\* self.rate_limiter.acquire(timeout=self.config.timeout) returns True,
\* having taken a token, or False (lines 115-116)
ClientAcquire ==
    /\ client.pc = "acquire"
    /\ \E acquired \in BOOLEAN :
          client' =
            IF acquired
            THEN [client EXCEPT !.pc = "request", !.tokens = @ + 1,
                                !.run_tokens = @ + 1]
            ELSE [client EXCEPT !.pc = "done",
                     !.outcome = Some([kind |-> "LLMGenerationError",
                                       msg |-> <<"Rate limit exceeded">>])]
    /\ UNCHANGED <<table_names, column_map, callVars, validatorVars,
                   prev_run, limiterVars, parked>>

\* one pass of the for loop: the request, then return, raise or go on to
\* the backoff (lines 130-150)
ClientRequest ==
    /\ client.pc = "request"
    /\ \E r \in RequestOutcomes :
          LET sent == [client EXCEPT !.log = Append(@, r.kind),
                                     !.run_requests = @ + 1]
          IN  client' =
                IF r.kind = "response"
                THEN [sent EXCEPT !.pc = "done",
                         !.outcome = Some([kind |-> "response",
                                           content |-> r.content,
                                           model |-> "test-model"])]
                ELSE IF r.kind = "Exception"
                THEN [sent EXCEPT !.pc = "done",
                         !.outcome = Some([kind |-> "Exception",
                            msg |-> <<"Expecting value: line 1 column 1 (char 0)">>])]
                ELSE IF RetriesExhausted(client.attempt)
                THEN [sent EXCEPT !.pc = "done",
                         !.outcome = Some([kind |-> "LLMGenerationError",
                            msg |-> <<"Failed to generate response from Ollama after ",
                                      Str(retry_attempts), " attempts: ",
                                      "connection refused">>])]
                ELSE [sent EXCEPT !.pc = "backoff"]
    /\ UNCHANGED <<table_names, column_map, callVars, validatorVars,
                   prev_run, limiterVars, parked>>

\* time.sleep(2 ** attempt), then the next pass (line 151)
ClientBackoff ==
    /\ client.pc = "backoff"
    /\ client' = [client EXCEPT !.waits = Append(@, 2 ^ client.attempt),
                                !.attempt = @ + 1,
                                !.pc = AfterBackoff(client.attempt)]
    /\ UNCHANGED <<table_names, column_map, callVars, validatorVars,
                   prev_run, limiterVars, parked>>

\* generate has returned or raised: the rest of the loop iteration of
\* _generate_sql
ClientReturn ==
    /\ client.pc = "done"
    /\ client.calls = current_try + 1
    /\ GenerationAttemptWith(client.outcome[1])

NextClient ==
    \/ ClientProcessQuery
    \/ RetrieveContext
    \/ BuildPrompt
    \/ Generate
    \/ ClientAcquire
    \/ ClientRequest
    \/ ClientBackoff
    \/ ClientReturn
    \/ ExecuteSql

SpecClient == Init /\ [][NextClient]_vars

-----------------------------------------------------------------------------
(* Threads calling RateLimiter.acquire concurrently.  The body of          *)
(* 'with self.lock' is taken in steps, one per statement, so that the      *)
(* steps of two threads can interleave wherever the lock lets them.        *)

\* _refill at time t: the token count and last_refill it leaves
refill(tk, lr, t) ==
    LET elapsed       == t - lr
        refill_amount == elapsed * max_calls
    IN  IF refill_amount > 0
        THEN [tokens |-> Min({max_calls * period, tk + refill_amount}),
              last_refill |-> t]
        ELSE [tokens |-> tk, last_refill |-> lr]

\* 'if timeout and (time.time() - start_time > timeout)'
TimedOut(timeout, start_time, t) ==
    /\ timeout # None
    /\ timeout[1] # 0
    /\ t - start_time > timeout[1]

\* a thread calls acquire(blocking, timeout): line 38
Acquire(t) ==
    /\ acq_pc[t] = "idle"
    /\ \E call \in AcquireCalls :
          acq' = [acq EXCEPT ![t] = [blocking |-> call.blocking,
                                     timeout |-> call.timeout,
                                     start_time |-> now]]
    /\ acq_pc' = [acq_pc EXCEPT ![t] = "lock"]
    /\ acq_result' = [acq_result EXCEPT ![t] = None]
    /\ UNCHANGED <<tokens, last_refill, lock, now, granted>>
    /\ UNCHANGED pipelineVars

\* 'with self.lock': line 41
Lock(t) ==
    /\ acq_pc[t] = "lock"
    /\ LockAvailable(lock)
    /\ lock' = t
    /\ acq_pc' = [acq_pc EXCEPT ![t] = "refill"]
    /\ UNCHANGED <<tokens, last_refill, now, acq, acq_result, granted>>
    /\ UNCHANGED pipelineVars

\* self._refill(): line 42
Refill(t) ==
    /\ acq_pc[t] = "refill"
    /\ tokens' = refill(tokens, last_refill, now).tokens
    /\ last_refill' = refill(tokens, last_refill, now).last_refill
    /\ acq_pc' = [acq_pc EXCEPT ![t] = "test"]
    /\ UNCHANGED <<lock, now, acq, acq_result, granted>>
    /\ UNCHANGED pipelineVars

\* 'if self.tokens >= 1' and 'if not blocking': lines 44 and 48-49; a
\* blocking caller leaves the lock and sleeps (line 53)
Test(t) ==
    /\ acq_pc[t] = "test"
    /\ IF tokens >= period
       THEN /\ acq_pc' = [acq_pc EXCEPT ![t] = "take"]
            /\ UNCHANGED <<lock, acq_result, acq>>
       ELSE /\ lock' = NoOwner
            /\ IF ~acq[t].blocking
               THEN /\ acq_result' = [acq_result EXCEPT ![t] = Some(FALSE)]
                    /\ acq_pc' = [acq_pc EXCEPT ![t] = "idle"]
                    /\ acq' = [acq EXCEPT ![t] = NoAcquire]
               ELSE /\ acq_pc' = [acq_pc EXCEPT ![t] = "sleep"]
                    /\ acq' = [acq EXCEPT ![t] =
                                 [blocking |-> @.blocking,
                                  timeout |-> @.timeout,
                                  start_time |-> @.start_time,
                                  wake |-> now + SleepTicks]]
                    /\ acq_result' = acq_result
    /\ UNCHANGED <<tokens, last_refill, now, granted>>
    /\ UNCHANGED pipelineVars

\* 'self.tokens -= 1; return True': lines 45-46
Take(t) ==
    /\ acq_pc[t] = "take"
    /\ tokens' = tokens - period
    /\ lock' = NoOwner
    /\ acq_result' = [acq_result EXCEPT ![t] = Some(TRUE)]
    /\ granted' = granted + 1
    /\ acq_pc' = [acq_pc EXCEPT ![t] = "idle"]
    /\ acq' = [acq EXCEPT ![t] = NoAcquire]
    /\ UNCHANGED <<last_refill, now>>
    /\ UNCHANGED pipelineVars

\* the sleep is over; the timeout test of lines 55-56
Wake(t) ==
    /\ acq_pc[t] = "sleep"
    /\ now >= acq[t].wake
    /\ IF TimedOut(acq[t].timeout, acq[t].start_time, now)
       THEN /\ acq_result' = [acq_result EXCEPT ![t] = Some(FALSE)]
            /\ acq_pc' = [acq_pc EXCEPT ![t] = "idle"]
            /\ acq' = [acq EXCEPT ![t] = NoAcquire]
       ELSE /\ acq_pc' = [acq_pc EXCEPT ![t] = "lock"]
            /\ acq_result' = acq_result
            /\ acq' = [acq EXCEPT ![t] = [blocking |-> @.blocking,
                                          timeout |-> @.timeout,
                                          start_time |-> @.start_time]]
    /\ UNCHANGED <<tokens, last_refill, lock, now, granted>>
    /\ UNCHANGED pipelineVars

\* time passes
Tick ==
    /\ now < MaxTime
    /\ now' = now + 1
    /\ UNCHANGED <<tokens, last_refill, lock, acq_pc, acq, acq_result,
                   granted>>
    /\ UNCHANGED pipelineVars

NextLimiter ==
    \/ \E t \in Threads : Acquire(t)
    \/ \E t \in Threads : Lock(t)
    \/ \E t \in Threads : Refill(t)
    \/ \E t \in Threads : Test(t)
    \/ \E t \in Threads : Take(t)
    \/ \E t \in Threads : Wake(t)
    \/ Tick

InitLimiter == Init /\ table_names = {}

SpecLimiter == InitLimiter /\ [][NextLimiter]_vars

-----------------------------------------------------------------------------
(* The rules of SQLValidator applied one at a time to a query text.  The   *)
(* texts are built from words that make each rule's cases happen: the      *)
(* prohibited keywords alone, in mixed case, inside an identifier, a       *)
(* string literal or a comment; FROM and JOIN in front of known and        *)
(* unknown tables and at the end of a column name; JOIN and SELECT         *)
(* repeated around the limits; TOP, LIMIT and COUNT( alone and inside      *)
(* longer words.                                                           *)

Tok_limit_10 ==
    <<" ", "L", "I", "M", "I", "T", " ", "1", "0">>

\* longest text in words, and most repetitions of JOIN or SELECT
MaxTokens == 3
MaxRepeat == 7

\* ''.join(parts)
RECURSIVE Concat(_)
Concat(parts) ==
    IF parts = <<>> THEN <<>> ELSE Head(parts) \o Concat(Tail(parts))

\* the texts of at most MaxTokens words of the set words
Texts(words) ==
    {Concat(parts) : parts \in UNION {[1..n -> words] : n \in 0..MaxTokens}}

\* DROP, dElEtE, update_date, an underscore, a space, a quote, a comment
KeywordWords ==
    {<<"D", "R", "O", "P">>,
     <<"d", "E", "l", "e", "T", "e">>,
     <<"u", "p", "d", "a", "t", "e", "_", "d", "a", "t", "e">>,
     <<"_">>,
     <<" ">>,
     <<"'">>,
     <<"-", "-">>}

\* FROM, join, a space, two known tables, an unknown one, valid_from
SchemaWords ==
    {<<"F", "R", "O", "M">>,
     <<"j", "o", "i", "n">>,
     <<" ">>,
     <<"p", "a", "t", "i", "e", "n", "t", "s">>,
     <<"V", "I", "S", "I", "T", "S">>,
     <<"h", "a", "c", "k", "e", "r", "s">>,
     <<"v", "a", "l", "i", "d", "_", "f", "r", "o", "m">>}

\* a space, TOP, limit, count(, stop, 1 and the suffix LIMIT 10
LimitWords ==
    {<<" ">>,
     <<"T", "O", "P">>,
     <<"l", "i", "m", "i", "t">>,
     <<"c", "o", "u", "n", "t", "(">>,
     <<"s", "t", "o", "p">>,
     <<"1">>,
     Tok_limit_10}

\* n words, alternately a and b
Repeat(a, b, n) == Concat([i \in 1..n |-> IF i % 2 = 1 THEN a ELSE b])

\* j JOINs, s SELECTs and d words that only contain them
ComplexityTexts ==
    {Repeat(<<"J", "O", "I", "N", " ">>, <<"j", "o", "i", "n", " ">>, j)
        \o Repeat(<<"S", "E", "L", "E", "C", "T", " ">>,
                  <<"S", "e", "l", "e", "c", "t", " ">>, s)
        \o Repeat(<<"r", "e", "j", "o", "i", "n", "e", "d", "_",
                   "s", "e", "l", "e", "c", "t", "s", " ">>,
                  <<"r", "e", "j", "o", "i", "n", "e", "d", "_",
                   "s", "e", "l", "e", "c", "t", "s", " ">>, d) :
     j \in 0..MaxRepeat, s \in 0..MaxRepeat, d \in 0..1}

ValidatorQueries ==
    Texts(KeywordWords) \cup Texts(SchemaWords) \cup Texts(LimitWords)
        \cup ComplexityTexts

\* what a call of a rule does: it returns True or raises one of errors
Verdict(rule, errors) ==
    IF errors = {}
    THEN {[rule |-> rule, raised |-> None]}
    ELSE {[rule |-> rule, raised |-> Some(e)] : e \in errors}

InitValidator ==
    /\ \E schema \in Schemas :
          /\ table_names = SQLValidatorInit(schema).table_names
          /\ column_map = SQLValidatorInit(schema).column_map
    /\ v_query \in ValidatorQueries
    /\ v_verdict = None
    /\ prev_run = None
    /\ RateLimiterInit
    /\ client = ClientIdle
    /\ parked = NotCalled
    /\ pc = "idle"
    /\ history = None
    /\ context_str = <<>>
    /\ prompt = <<>>
    /\ result = NewResult(<<>>)
    /\ current_try = 0
    /\ last_error = None
    /\ sql_query = NO_SQL
    /\ raised = None
    /\ gen_calls = <<>>
    /\ val_calls = <<>>
    /\ exec_calls = <<>>
    /\ attempts = <<>>
    /\ inputs = <<>>

\* a rule is called on the query; the validator keeps no state of the call
Validate(rule, errors) ==
    /\ v_verdict' \in {Some(v) : v \in Verdict(rule, errors)}
    /\ UNCHANGED <<table_names, column_map, v_query, prev_run, client>>
    /\ UNCHANGED <<callVars, limiterVars, parked>>

ValidateQuery == Validate("validate_query", validate_query(v_query))

ValidateSchema ==
    Validate("validate_schema", validate_schema(table_names, v_query))

ValidateComplexity ==
    Validate("validate_complexity", validate_complexity(v_query))

EnforceResultLimit ==
    Validate("enforce_result_limit", enforce_result_limit(v_query))

NextValidator ==
    \/ ValidateQuery
    \/ ValidateSchema
    \/ ValidateComplexity
    \/ EnforceResultLimit

SpecValidator == InitValidator /\ [][NextValidator]_vars

-----------------------------------------------------------------------------
(* SQLParser.parse called on its own, on the responses that can be made of *)
(* a few words.                                                            *)

\* the fences, 'SQL Query: ', 'SELECT * FROM t WHERE a < 5',
\* ' AND b > 3 LIMIT 10', '</start_of_turn>', a space, a line break
ParserWords ==
    {FenceSql, FenceOpen, FenceClose,
     <<"S", "Q", "L", " ", "Q", "u", "e", "r", "y", ":", " ">>,
     <<"S", "E", "L", "E", "C", "T", " ", "*", " ", "F", "R", "O", "M",
       " ", "t", " ", "W", "H", "E", "R", "E", " ", "a", " ", "<", " ",
       "5">>,
     <<" ", "A", "N", "D", " ", "b", " ", ">", " ", "3", " ", "L", "I",
       "M", "I", "T", " ", "1", "0">>,
     <<"<", "/", "s", "t", "a", "r", "t", "_", "o", "f", "_", "t", "u",
       "r", "n", ">">>,
     <<" ">>,
     <<"\n">>}

InitParser ==
    /\ \E schema \in Schemas :
          /\ table_names = SQLValidatorInit(schema).table_names
          /\ column_map = SQLValidatorInit(schema).column_map
    /\ v_query \in Texts(ParserWords)
    /\ v_verdict = None
    /\ prev_run = None
    /\ RateLimiterInit
    /\ client = ClientIdle
    /\ parked = NotCalled
    /\ pc = "idle"
    /\ history = None
    /\ context_str = <<>>
    /\ prompt = <<>>
    /\ result = NewResult(<<>>)
    /\ current_try = 0
    /\ last_error = None
    /\ sql_query = NO_SQL
    /\ raised = None
    /\ gen_calls = <<>>
    /\ val_calls = <<>>
    /\ exec_calls = <<>>
    /\ attempts = <<>>
    /\ inputs = <<>>

\* parse is called on the response; the parser keeps no state of the call
ParseResponse ==
    /\ v_verdict' = Some(parse(v_query))
    /\ UNCHANGED <<table_names, column_map, v_query, prev_run, client>>
    /\ UNCHANGED <<callVars, limiterVars, parked>>

SpecParser == InitParser /\ [][ParseResponse]_vars

-----------------------------------------------------------------------------
(* Properties of one run of process_query.  The history variables          *)
(* gen_calls, val_calls, exec_calls and attempts cover the current run.    *)

\* the four rules that _validate_sql applies
OrchestratorRules ==
    {"validate_query", "validate_schema", "validate_complexity",
     "enforce_result_limit"}

\* the attempt kinds that use up the budget without a candidate to run
FailureKinds == {"SecurityError", "LLMGenerationError", "Exception"}

LastAttempt == attempts[Len(attempts)]

Returned == pc = "returned"

\* every rule, judged on its own, accepts the query
PassesEveryRule(q) ==
    /\ validate_query(q) = {}
    /\ validate_schema(table_names, q) = {}
    /\ validate_complexity(q) = {}
    /\ enforce_result_limit(q) = {}

\* C1: every SQL string handed to QueryExecutor.execute is the candidate of
\* the latest generation attempt, that attempt invoked each of the four
\* orchestrator rules on it and none raised, and the string passes each
\* rule; a rejected candidate or one of an earlier attempt is never run.
C1_ExecutedOnlyIfValidated ==
    \A i \in 1..Len(exec_calls) :
        LET q == exec_calls[i].sql
        IN  /\ attempts # <<>>
            /\ LastAttempt.kind = "validated"
            /\ LastAttempt.candidate = Some(q)
            /\ \A r \in OrchestratorRules :
                  \E k \in 1..Len(val_calls) :
                     val_calls[k] = [rule |-> r, query |-> q,
                                     try |-> LastAttempt.try]
            /\ PassesEveryRule(q)
            /\ \A k \in 1..(Len(attempts) - 1) :
                  attempts[k].kind \in FailureKinds

\* an execution that follows a rejected candidate and a generation failure
C1_Witness ==
    /\ Len(exec_calls) = 1
    /\ Len(attempts) = 3
    /\ attempts[1].kind = "SecurityError"
    /\ attempts[1].candidate # Some(exec_calls[1].sql)
    /\ attempts[2].kind = "LLMGenerationError"

\* C2: QueryExecutor.execute is invoked at most once in a run, and after
\* it has been invoked no step of the same run invokes the generator or
\* the executor again, whether the execution returned or raised.
C2_ExecuteOnceThenNoGeneration ==
    /\ [](Len(exec_calls) <= 1)
    /\ [][(exec_calls # <<>> /\ pc' # "retrieve")
            => (gen_calls' = gen_calls /\ exec_calls' = exec_calls)]_vars

\* an execution that raised after two generator calls, with budget left
C2_Witness ==
    /\ Len(exec_calls) = 1
    /\ exec_calls[1].outcome.kind = "DatabaseError"
    /\ Len(gen_calls) = 2
    /\ current_try < 3

\* C3: the generator is invoked at most 3 times in a run, one invocation
\* per attempt, and three failed attempts of any mix of kinds end the run
\* with no fourth attempt possible.
C3_SharedBudgetOfThree ==
    /\ Len(gen_calls) <= 3
    /\ Len(gen_calls) = Len(attempts)
    /\ Len(gen_calls) = current_try
    /\ Cardinality({i \in 1..Len(attempts) :
                       attempts[i].kind \in FailureKinds}) <= 3
    /\ (/\ Len(attempts) >= 3
        /\ \A i \in 1..3 : attempts[i].kind \in FailureKinds)
          => (Returned /\ ~ENABLED GenerationAttempt)

\* three failures of mixed kinds: validation, generation, validation
C3_Witness ==
    /\ Len(attempts) = 3
    /\ attempts[1].kind = "SecurityError"
    /\ attempts[2].kind = "LLMGenerationError"
    /\ attempts[3].kind = "SecurityError"
    /\ Returned

\* C4: when all 3 attempts fail, by generation failure or by validation
\* failure, the call returns status error with the error field set and
\* QueryExecutor.execute has not been invoked.
C4_ExhaustionIsError ==
    (/\ Len(attempts) = 3
     /\ \A i \in 1..3 :
           attempts[i].kind \in {"SecurityError", "LLMGenerationError"})
      => /\ Returned
         /\ result.status = Some("error")
         /\ result.error # None
         /\ result.error[1] # <<>>
         /\ exec_calls = <<>>

\* the generator failed on each of the three attempts
C4_Witness ==
    /\ Returned
    /\ Len(attempts) = 3
    /\ \A i \in 1..3 : attempts[i].kind = "LLMGenerationError"
    /\ result.status = Some("error")

\* the text ends with the message e, and what precedes e names n
DescribesWithCount(text, e, n) ==
    LET k == Len(text) - Len(e)
    IN  /\ k >= 0
        /\ SubSeq(text, k + 1, Len(text)) = e
        /\ \E i \in 1..k : text[i] = Str(n)

\* C5: when the budget is exhausted, the error of the result describes the
\* last failure and states the number of attempts made, after a validation
\* failure as well as after a generation failure.
C5_ErrorNamesFailureAndAttempts ==
    (/\ Returned
     /\ Len(attempts) = 3
     /\ LastAttempt.kind \in {"SecurityError", "LLMGenerationError"})
      => /\ result.error # None
         /\ DescribesWithCount(result.error[1], LastAttempt.error[1],
                               Len(attempts))

\* attempt i parsed a text that equals NO_SQL up to letter case
ParsedSentinel(i) ==
    /\ attempts[i].candidate # None
    /\ Upper(attempts[i].candidate[1]) = NO_SQL

\* C6: an attempt whose parsed text equals NO_SQL in any letter case is the
\* last attempt of the run: no validator rule receives that text, the
\* executor is not invoked, and the call returns status no_sql_generated
\* with data None.
C6_SentinelEndsRun ==
    \A i \in 1..Len(attempts) :
        ParsedSentinel(i) =>
            /\ i = Len(attempts)
            /\ Len(gen_calls) = i
            /\ \A k \in 1..Len(val_calls) :
                  /\ val_calls[k].try # i
                  /\ Upper(val_calls[k].query) # NO_SQL
            /\ exec_calls = <<>>
            /\ pc \in {"execute", "returned"}
            /\ ~ENABLED GenerationAttempt
            /\ Returned => /\ result.status = Some("no_sql_generated")
                           /\ result.data = Some(PyNone)

\* a lower-case sentinel on the second attempt, after a rejected candidate
C6_Witness ==
    /\ Returned
    /\ Len(attempts) = 2
    /\ attempts[1].kind = "SecurityError"
    /\ attempts[2].candidate = Some(Resp_no_sql_lower)
    /\ result.status = Some("no_sql_generated")

\* the last attempt of the run failed and used up the budget
BudgetExhausted ==
    /\ Len(attempts) = 3
    /\ LastAttempt.kind \in FailureKinds

\* the executor was invoked and raised
ExecutionFailed ==
    /\ exec_calls # <<>>
    /\ exec_calls[Len(exec_calls)].outcome.kind # "result"

\* C7: a returned result has status success, no_sql_generated or error;
\* success only if the one execution of the run returned a result set, whose
\* columns, rows and row_count are the data; error only if the budget was
\* exhausted or the execution failed.
C7_StatusInvariant ==
    Returned =>
        /\ result.status \in {Some("success"), Some("no_sql_generated"),
                              Some("error")}
        /\ result.status = Some("success") =>
              /\ Len(exec_calls) = 1
              /\ exec_calls[1].outcome.kind = "result"
              /\ result.data =
                    Some([columns |-> exec_calls[1].outcome.value.columns,
                          rows |-> exec_calls[1].outcome.value.rows,
                          row_count |->
                              exec_calls[1].outcome.value.row_count])
        /\ result.status = Some("error") =>
              (BudgetExhausted \/ ExecutionFailed)

\* a success on the third attempt, and so with no budget left
C7_Witness ==
    /\ Returned
    /\ result.status = Some("success")
    /\ Len(attempts) = 3
    /\ result.data # None
    /\ result.data[1].row_count = 1

\* C8 as stated: a run that ends with status no_sql_generated emitted the
\* sentinel and invoked no validator rule and no execution at all.
C8_NoValidationInRun ==
    (Returned /\ result.status = Some("no_sql_generated")) =>
        /\ attempts # <<>>
        /\ ParsedSentinel(Len(attempts))
        /\ val_calls = <<>>
        /\ exec_calls = <<>>

\* C8 amended: a run that ends with status no_sql_generated emitted the
\* sentinel in its last attempt, invoked no validator rule on the sentinel
\* and no execution; the validator rules it invoked belong to earlier
\* attempts, whose candidates were rejected.
C8_NoValidationOfSentinel ==
    (Returned /\ result.status = Some("no_sql_generated")) =>
        /\ attempts # <<>>
        /\ ParsedSentinel(Len(attempts))
        /\ exec_calls = <<>>
        /\ \A k \in 1..Len(val_calls) :
              /\ val_calls[k].try < Len(attempts)
              /\ attempts[val_calls[k].try].kind = "SecurityError"
              /\ attempts[val_calls[k].try].candidate =
                    Some(val_calls[k].query)
              /\ Upper(val_calls[k].query) # NO_SQL

\* a sentinel that follows a validated-and-rejected candidate
C8_Witness ==
    /\ Returned
    /\ result.status = Some("no_sql_generated")
    /\ val_calls # <<>>
    /\ attempts[Len(attempts)].candidate = Some(NO_SQL)

\* the last attempt produced a candidate that passed validation, after
\* k < 3 failed attempts
ValidatedAfterFailures ==
    /\ attempts # <<>>
    /\ LastAttempt.kind = "validated"
    /\ \A k \in 1..(Len(attempts) - 1) : attempts[k].kind \in FailureKinds

\* what C9 says about the candidate and the calls
CandidateRunOnce ==
    /\ result.generated_sql = LastAttempt.candidate
    /\ Len(gen_calls) = Len(attempts)
    /\ Len(exec_calls) = 1
    /\ Some(exec_calls[1].sql) = LastAttempt.candidate

\* C9 as stated: when k < 3 failed attempts are followed by a candidate
\* that passes validation, the run ends with status success, generated_sql
\* the candidate given to the executor, k+1 generator calls and one
\* execution.
C9_RetryThenSuccess ==
    (Returned /\ ValidatedAfterFailures) =>
        /\ result.status = Some("success")
        /\ CandidateRunOnce

\* C9 amended: such a run ends with generated_sql the candidate given to
\* the executor, k+1 generator calls and one execution; its status is
\* success when that execution returns a result set and error when it
\* raises.
C9_RetryThenExecuteOnce ==
    (Returned /\ ValidatedAfterFailures) =>
        /\ CandidateRunOnce
        /\ Len(attempts) <= 3
        /\ exec_calls[1].outcome.kind = "result"
              => result.status = Some("success")
        /\ exec_calls[1].outcome.kind # "result"
              => result.status = Some("error")

\* 'DROP TABLE patients', then 'SELECT * FROM patients LIMIT 10'
C9_Witness ==
    /\ Returned
    /\ Len(attempts) = 2
    /\ attempts[1].candidate = Some(Resp_drop)
    /\ attempts[2].candidate = Some(Resp_select_limit)
    /\ result.status = Some("success")
    /\ result.generated_sql = Some(Resp_select_limit)
    /\ Len(gen_calls) = 2

\* C10: when QueryExecutor.execute raises, the call returns at once with
\* status error, the message of the exception as the error, and a last
\* step named execution that carries the same message; the execution is
\* the only one of the run and no generator call follows it.
C10_ExecutionFailureIsTerminal ==
    ExecutionFailed =>
        LET e == exec_calls[1].outcome.msg
        IN  /\ Returned
            /\ result.status = Some("error")
            /\ result.error = Some(e)
            /\ result.steps # <<>>
            /\ result.steps[Len(result.steps)] =
                  [name |-> <<"execution">>, error |-> e]
            /\ Len(exec_calls) = 1
            /\ Len(gen_calls) = Len(attempts)
            /\ LastAttempt.kind = "validated"
            /\ ~ENABLED GenerationAttempt

\* an execution that timed out
C10_Witness ==
    /\ Returned
    /\ Len(exec_calls) = 1
    /\ exec_calls[1].outcome = [kind |-> "Exception",
                                msg |-> <<"Query timed out">>]
    /\ result.error = Some(<<"Query timed out">>)

\* the exception classes that the loop treats as recoverable by name
RecoverableKinds == {"SecurityError", "LLMGenerationError"}

\* C11: a SecurityError of a validation rule or an LLMGenerationError of
\* the generator never leaves process_query: the next generation attempt
\* receives the base prompt extended by its message, or, on the third
\* attempt, the call returns a result with status error.
C11_RecoverableErrorsStayInside ==
    /\ raised # None => raised[1].type \notin RecoverableKinds
    /\ \A i \in 1..Len(attempts) :
          attempts[i].kind \in RecoverableKinds =>
             /\ pc # "raised"
             /\ attempts[i].error # None
             /\ attempts[i].error[1] # <<>>
             /\ IF i < Len(attempts)
                THEN /\ gen_calls[i + 1] # prompt
                     /\ Contains(gen_calls[i + 1], attempts[i].error[1])
                     /\ Contains(gen_calls[i + 1], prompt)
                ELSE IF i < 3
                THEN /\ pc = "generate"
                     /\ last_error = attempts[i].error
                     /\ ENABLED GenerationAttempt
                ELSE /\ Returned
                     /\ result.status = Some("error")
                     /\ result.error # None

\* a generation failure followed by an attempt whose prompt names it
C11_Witness ==
    /\ Len(attempts) = 2
    /\ attempts[1].kind = "LLMGenerationError"
    /\ attempts[2].kind = "SecurityError"
    /\ Contains(gen_calls[2], <<"Rate limit exceeded">>)
    /\ pc = "generate"

\* the retriever raised in this run
RetrievalFailed ==
    \E i \in 1..Len(inputs) :
        /\ inputs[i].call = "retrieve"
        /\ inputs[i].outcome.kind # "documents"

\* C12 as stated: when the retrieval fails, process_query returns a result
\* with status error and the error field set, and neither the generator nor
\* the executor is invoked.
C12_RetrievalFailureReturnsError ==
    RetrievalFailed =>
        /\ Returned
        /\ result.status = Some("error")
        /\ result.error # None
        /\ gen_calls = <<>>
        /\ exec_calls = <<>>

\* C12 amended: when the retrieval fails, the exception of the retriever
\* leaves process_query, which returns no result (status and error stay
\* unset), and neither the generator nor the executor is invoked.
C12_RetrievalFailurePropagates ==
    RetrievalFailed =>
        /\ pc = "raised"
        /\ raised # None
        /\ raised[1].phase = "retrieve"
        /\ raised[1].msg = inputs[Len(inputs)].outcome.msg
        /\ result.status = None
        /\ result.error = None
        /\ gen_calls = <<>>
        /\ exec_calls = <<>>
        /\ ~ENABLED GenerationAttempt
        /\ ~ENABLED ExecuteSql
        /\ ~ENABLED BuildPrompt

\* the vector store was unavailable
C12_Witness ==
    /\ RetrievalFailed
    /\ pc = "raised"
    /\ result.steps = <<>>
    /\ result.question = Question_ok

\* C13 as stated: an exception of another class raised while generating,
\* parsing or validating ends the run at once with status error; no further
\* generation attempt follows it.
C13_UnexpectedErrorIsTerminal ==
    \A i \in 1..Len(attempts) :
        attempts[i].kind = "Exception" =>
            /\ i = Len(attempts)
            /\ Returned
            /\ result.status = Some("error")

\* C13 amended: an exception of another class uses up one attempt like the
\* recoverable ones: before the third attempt the run goes on with another
\* generation attempt, and on the third attempt it ends with status error
\* and the error 'Unexpected error: ' followed by the message.
C13_UnexpectedErrorUsesBudget ==
    \A i \in 1..Len(attempts) :
        attempts[i].kind = "Exception" =>
            IF i < 3
            THEN \/ i < Len(attempts)
                 \/ /\ pc = "generate"
                    /\ result.status = None
                    /\ last_error = attempts[i].error
                    /\ ENABLED GenerationAttempt
            ELSE /\ i = Len(attempts)
                 /\ Returned
                 /\ result.status = Some("error")
                 /\ result.error =
                       Some(<<"Unexpected error: ">> \o attempts[i].error[1])
                 /\ exec_calls = <<>>

\* an unexpected exception on the first attempt, a success on the second
C13_Witness ==
    /\ Returned
    /\ Len(attempts) = 2
    /\ attempts[1].kind = "Exception"
    /\ attempts[2].kind = "validated"
    /\ result.status = Some("success")

\* the entries of the steps list that are named generation_try_N
GenerationSteps(steps) ==
    {i \in 1..Len(steps) : steps[i].name[1] = "generation_try_"}

\* the steps list holds one generation_try_N entry per generator call N
StepsMatchGeneratorCalls ==
    /\ Cardinality(GenerationSteps(result.steps)) = Len(gen_calls)
    /\ \A n \in 1..Len(gen_calls) :
          \E i \in GenerationSteps(result.steps) :
             result.steps[i].name = <<"generation_try_", Str(n)>>

\* within a run the steps list only grows at its end
StepsAppendOnly ==
    pc' # "retrieve" =>
        /\ Len(result'.steps) >= Len(result.steps)
        /\ SubSeq(result'.steps, 1, Len(result.steps)) = result.steps

\* C14: the steps list is append-only within a run and holds one entry
\* named generation_try_N for every generator invocation N, failed
\* invocations included, so that the generation_try entries are as many as
\* the generation attempts made.
C14_StepPerGeneratorCall ==
    /\ [][StepsAppendOnly]_vars
    /\ []StepsMatchGeneratorCalls

-----------------------------------------------------------------------------
(* Properties of the validator rules, under SpecValidator.                 *)

\* the words of a text: its maximal runs of letters, digits and
\* underscores, in upper case
WholeWords(text) ==
    {Upper(Slice(text, a, b)) : <<a, b>> \in
        {r \in (1..Len(text)) \X (1..Len(text)) :
            /\ r[1] <= r[2]
            /\ \A k \in r[1]..r[2] : IsWordChar(text[k])
            /\ (r[1] = 1 \/ ~IsWordChar(text[r[1] - 1]))
            /\ (r[2] = Len(text) \/ ~IsWordChar(text[r[2] + 1]))}}

IsBlank(text) == \A k \in 1..Len(text) : IsSpace(text[k])

Called(rule) == v_verdict # None /\ v_verdict[1].rule = rule

Passed == v_verdict[1].raised = None

\* C15: validate_query rejects blank text; it rejects a non-blank query
\* exactly when one of its words is a prohibited keyword in any letter case
\* (in a string literal or a comment as anywhere else), naming such a
\* keyword, and so it passes a query where the keywords are only part of a
\* longer identifier.
C15_ProhibitedWholeWords ==
    Called("validate_query") =>
        IF IsBlank(v_query)
        THEN v_verdict[1].raised = Some(<<"Query cannot be empty.">>)
        ELSE /\ Passed <=> WholeWords(v_query) \cap PROHIBITED_KEYWORDS = {}
             /\ ~Passed => \E k \in WholeWords(v_query) \cap PROHIBITED_KEYWORDS :
                   v_verdict[1].raised =
                       Some(<<"Query contains prohibited keyword: ">> \o k)

\* a query that holds UPDATE only inside update_date has passed
C15_Witness ==
    /\ Called("validate_query")
    /\ Passed
    /\ Contains(Upper(v_query), KW_UPDATE)

\* the identifiers that follow a FROM or JOIN word after whitespace
FollowingIdentifiers(text) ==
    {Upper(Slice(text, m, e)) : <<m, e>> \in
        {r \in (1..Len(text)) \X (1..Len(text)) :
            /\ r[1] <= r[2]
            /\ \A k \in r[1]..r[2] : IsWordChar(text[k])
            /\ (r[2] = Len(text) \/ ~IsWordChar(text[r[2] + 1]))
            /\ \E a \in 1..r[1], b \in 1..r[1] :
                  /\ a <= b /\ b < r[1] - 1
                  /\ Upper(Slice(text, a, b)) \in {KW_FROM, KW_JOIN}
                  /\ (a = 1 \/ ~IsWordChar(text[a - 1]))
                  /\ \A k \in (b + 1)..(r[1] - 1) : IsSpace(text[k])}}

\* C16: with a known table set, validate_schema raises exactly when an
\* identifier that follows a FROM or JOIN token is not a known table; with
\* no schema it returns True.
C16_UnknownTableAfterFromOrJoin ==
    Called("validate_schema") =>
        IF table_names = {}
        THEN Passed
        ELSE Passed <=> FollowingIdentifiers(v_query) \subseteq table_names

\* the number of words of the text that are w in any letter case
WordCount(text, w) ==
    Cardinality({a \in 1..Len(text) :
        /\ a + Len(w) - 1 <= Len(text)
        /\ Upper(Slice(text, a, a + Len(w) - 1)) = w
        /\ (a = 1 \/ ~IsWordChar(text[a - 1]))
        /\ (a + Len(w) - 1 = Len(text) \/ ~IsWordChar(text[a + Len(w)]))})

\* C17: validate_complexity raises exactly when the query has more than 5
\* JOIN words or more than 3 SELECT words, in any letter case.
C17_ComplexityCeiling ==
    Called("validate_complexity") =>
        (~Passed <=> \/ WordCount(v_query, KW_JOIN) > 5
                     \/ WordCount(v_query, KW_SELECT) > 3)

\* a query with exactly 5 JOINs and 3 SELECTs has passed
C17_Witness ==
    /\ Called("validate_complexity")
    /\ Passed
    /\ WordCount(v_query, KW_JOIN) = 5
    /\ WordCount(v_query, KW_SELECT) = 3

HasLimitClause(text) == WholeWords(text) \cap {KW_TOP, KW_LIMIT} # {}

HasAggregateCall(text) == Contains(Upper(text), KW_COUNT)

EndsWith(text, w) ==
    Len(text) >= Len(w) /\ Slice(text, Len(text) - Len(w) + 1, Len(text)) = w

\* C18: enforce_result_limit raises for a query with no TOP or LIMIT clause
\* and no aggregate call, and passes a query that has one of them, as every
\* query that ends with ' LIMIT 10' does.
C18_UnboundedScanRejected ==
    Called("enforce_result_limit") =>
        /\ Passed <=> (HasLimitClause(v_query) \/ HasAggregateCall(v_query))
        /\ EndsWith(v_query, Tok_limit_10) => Passed

-----------------------------------------------------------------------------
(* Properties of a repeated call, under SpecReplay.                        *)

SecondCallFinished == prev_run # None /\ pc \in {"returned", "raised"}

\* C19: a second call of process_query with the same question and history,
\* whose collaborators behave as in the first call, ends as the first call
\* did and returns the same status and the same generated_sql.
C19_SameInputsSameOutcome ==
    SecondCallFinished =>
        /\ pc = prev_run[1].pc
        /\ pc = "returned" =>
              /\ result.status = prev_run[1].result.status
              /\ result.generated_sql = prev_run[1].result.generated_sql

\* a second call that went through a rejected candidate has returned
C19_Witness ==
    /\ SecondCallFinished
    /\ pc = "returned"
    /\ Len(attempts) >= 2
    /\ result.status = Some("success")

-----------------------------------------------------------------------------
(* Properties of the rate limiter, under SpecLimiter.                      *)

\* the calls of acquire that have returned False
Refused == {t \in Threads : acq_result[t] = Some(FALSE)}

\* C20: under every interleaving of concurrent acquire calls the token
\* count stays within 0..max_calls, the tokens granted and the tokens left
\* never exceed the capacity plus what time has refilled, and before any
\* time has passed at most max_calls calls succeed and a call is refused
\* only after max_calls calls have succeeded.
C20_TokensGrantedOnce ==
    /\ tokens >= 0
    /\ tokens <= max_calls * period
    /\ tokens + period * granted
          <= max_calls * period + max_calls * last_refill
    /\ now = 0 =>
          /\ granted <= max_calls
          /\ Refused # {} => granted = max_calls

\* with no time elapsed, max_calls callers hold a token and a third one
\* has been refused
C20_Witness ==
    /\ now = 0
    /\ granted = max_calls
    /\ Refused # {}
    /\ tokens = 0

\* a thread's call of acquire returns True in this step
ReturnsTrue(t) == acq_result[t] # Some(TRUE) /\ acq_result'[t] = Some(TRUE)

\* a thread comes out of its sleep (line 53) to the timeout test
TimeoutTested(t) == acq_pc[t] = "sleep" /\ acq_pc'[t] # "sleep"

\* C21: acquire returns True only in a step that takes a token; a blocking
\* call that was given a timeout t >= 0 returns False when it finds, after
\* a sleep, that more than t has elapsed since it was called; a
\* non-blocking call never goes to sleep.
C21_BlockingAcquire ==
    [][\A t \in Threads :
          /\ ReturnsTrue(t) => tokens' = tokens - period
          /\ (/\ TimeoutTested(t)
              /\ acq[t].timeout # None
              /\ now - acq[t].start_time > acq[t].timeout[1])
                => acq_result'[t] = Some(FALSE)
          /\ (acq_pc[t] # "idle" /\ ~acq[t].blocking)
                => acq_pc'[t] # "sleep"]_vars

-----------------------------------------------------------------------------
(* Properties of OllamaClient.generate inside a run, under SpecClient.     *)

RateLimitExceeded ==
    [kind |-> "LLMGenerationError", msg |-> <<"Rate limit exceeded">>]

\* attempt i of the run ended because the limiter refused the token
RateLimited(i) ==
    /\ attempts[i].kind = "LLMGenerationError"
    /\ attempts[i].error = Some(<<"Rate limit exceeded">>)

\* C22: when acquire gives no token, generate raises LLMGenerationError;
\* the attempt counts as one of the three, the exception does not leave
\* process_query, the loop goes on to the next call of generate, and after
\* the third attempt the call returns a result with status error.
C22_RateLimitTimeoutIsGenerationFailure ==
    /\ (client.pc = "done" /\ client.tokens = 0)
          => client.outcome = Some(RateLimitExceeded)
    /\ \A i \in 1..Len(attempts) :
          RateLimited(i) =>
             /\ attempts[i].try = i
             /\ current_try >= i
             /\ raised = None
             /\ pc \in {"generate", "execute", "returned"}
             /\ IF i < Len(attempts) THEN TRUE
                ELSE IF i < 3
                THEN /\ pc = "generate"
                     /\ current_try = i
                     /\ client.calls \in {i, i + 1}
                     /\ client.calls = i => ENABLED Generate
                ELSE /\ Returned
                     /\ result.status = Some("error")
                     /\ result.error =
                           Some(<<"Generation failed: ", "Rate limit exceeded">>)

\* the limiter refused the first call of generate and the run ended well
C22_Witness ==
    /\ Len(attempts) >= 2
    /\ RateLimited(1)
    /\ Returned
    /\ result.status = Some("success")

LastOf(seq) == seq[Len(seq)]

\* C23: a call of generate sends at most retry_attempts requests; each
\* request but the last failed in transport and was followed by a wait of
\* 1, 2, 4, ... seconds; a response ends the call at once, and the failure
\* of request number retry_attempts raises LLMGenerationError.
C23_TransportRetries ==
    /\ Len(client.log) <= retry_attempts
    /\ client.waits = [i \in 1..Len(client.waits) |-> 2 ^ (i - 1)]
    /\ \A i \in 1..(Len(client.log) - 1) : client.log[i] = "RequestException"
    /\ client.pc = "request" =>
          /\ Len(client.waits) = Len(client.log)
          /\ Len(client.log) < retry_attempts
          /\ ENABLED ClientRequest
    /\ client.pc = "backoff" =>
          /\ LastOf(client.log) = "RequestException"
          /\ Len(client.waits) = Len(client.log) - 1
          /\ Len(client.log) < retry_attempts
    /\ (client.pc = "done" /\ client.log # <<>>) =>
          /\ Len(client.waits) = Len(client.log) - 1
          /\ LastOf(client.log) = "response" =>
                client.outcome[1].kind = "response"
          /\ LastOf(client.log) = "RequestException" =>
                /\ Len(client.log) = retry_attempts
                /\ client.outcome[1].kind = "LLMGenerationError"

\* fail, fail, succeed: the third response is returned after 3 requests
C23_Witness ==
    /\ client.pc = "done"
    /\ client.log = <<"RequestException", "RequestException", "response">>
    /\ client.waits = <<1, 2>>
    /\ client.outcome[1].kind = "response"

\* C29: a call of generate holds one token from before its first request
\* on, whatever the number of requests, and has sent no request when the
\* token was refused; a run of process_query takes at most 3 tokens and
\* sends at most 3 * retry_attempts requests.
C29_OneTokenPerGenerate ==
    /\ client.tokens <= 1
    /\ (client.pc \in {"request", "backoff"} \/ client.log # <<>>)
          => client.tokens = 1
    /\ (client.pc = "done" /\ client.tokens = 0) => client.log = <<>>
    /\ client.calls <= 3
    /\ client.run_tokens <= 3
    /\ client.run_tokens <= client.calls
    /\ client.run_requests <= 3 * retry_attempts

\* a run that used all its tokens and all its requests
C29_Witness ==
    /\ Returned
    /\ client.run_tokens = 3
    /\ client.run_requests = 3 * retry_attempts

-----------------------------------------------------------------------------
(* Further properties of one run of process_query, under Spec.             *)

\* the order in which the rules are to be applied
RuleOrder ==
    <<"validate_query", "validate_schema", "validate_complexity",
      "enforce_result_limit">>

\* what rule number k, judged on its own, has to say against query q
RuleErrors(k, q) ==
    CASE k = 1 -> validate_query(q)
      [] k = 2 -> validate_schema(table_names, q)
      [] k = 3 -> validate_complexity(q)
      [] k = 4 -> enforce_result_limit(q)

FailingRules(q) == {k \in 1..4 : RuleErrors(k, q) # {}}

\* the rules invoked in attempt number i, in order
RulesInvoked(i) ==
    LET calls == SelectSeq(val_calls, LAMBDA c : c.try = i)
    IN  [k \in 1..Len(calls) |-> calls[k].rule]

\* C24: a candidate is put to the rules in the order non-empty and
\* prohibited operations, schema existence, complexity ceiling, result-size
\* guard; the violation reported is that of the first rule it fails, and no
\* rule after that one is invoked on it.
C24_FirstFailingRuleWins ==
    \A i \in 1..Len(attempts) :
        attempts[i].kind \in {"SecurityError", "validated"} =>
            LET q == attempts[i].candidate[1]
            IN  IF FailingRules(q) = {}
                THEN /\ attempts[i].kind = "validated"
                     /\ RulesInvoked(i) = RuleOrder
                ELSE LET k == Min(FailingRules(q))
                     IN  /\ attempts[i].kind = "SecurityError"
                         /\ RulesInvoked(i) = SubSeq(RuleOrder, 1, k)
                         /\ attempts[i].error[1] \in RuleErrors(k, q)
                         /\ IsBlank(q) => attempts[i].error[1] =
                                             <<"Query cannot be empty.">>

\* a candidate that names a prohibited operation and has no result limit
\* was rejected
C24_Witness ==
    \E i \in 1..Len(attempts) :
        /\ attempts[i].kind = "SecurityError"
        /\ Cardinality(FailingRules(attempts[i].candidate[1])) >= 2
        /\ 4 \in FailingRules(attempts[i].candidate[1])
        /\ RulesInvoked(i) = <<"validate_query">>

\* the text a retry adds to the base prompt for failure message msg
FailureNote(msg) ==
    <<"\n\nPrevious attempt failed with error: ">> \o msg
        \o <<"\nPlease correct the query.">>

\* C25: the first generation attempt of a run receives the base prompt
\* unchanged; every later attempt receives the base prompt followed by the
\* failure message of the attempt just before it (a rule violation and a
\* generation error always have a message; after an unexpected exception
\* that has no text there is nothing to add); the base prompt is
\* assembled once per run, before the first attempt, and stays as it is
\* while the attempts go on.
C25_RetryPromptCarriesLastFailure ==
    /\ [](\A i \in 1..Len(gen_calls) :
            /\ i <= Len(attempts)
            /\ i = 1 => gen_calls[i] = prompt
            /\ i > 1 =>
                 /\ attempts[i - 1].error # None
                 /\ gen_calls[i] =
                        IF attempts[i - 1].error[1] = <<>>
                        THEN prompt
                        ELSE prompt \o FailureNote(attempts[i - 1].error[1])
                 /\ attempts[i - 1].kind
                        \in {"SecurityError", "LLMGenerationError"}
                      => attempts[i - 1].error[1] # <<>>)
    /\ [][pc = "generate" => prompt' = prompt]_vars

\* a third attempt made after a rejected candidate and then a generation
\* error
C25_Witness ==
    /\ Len(gen_calls) = 3
    /\ attempts[1].kind = "SecurityError"
    /\ attempts[2].kind = "LLMGenerationError"
    /\ attempts[1].error # attempts[2].error
    /\ gen_calls[3] = prompt \o FailureNote(attempts[2].error[1])

\* the attempts of the run that got as far as parsing a candidate
ParsedAttempts == SelectSeq(attempts, LAMBDA a : a.candidate # None)

\* the run ended in the loop, with its last attempt failed
EndedInGeneration ==
    /\ pc = "returned"
    /\ result.status = Some("error")
    /\ Len(attempts) = max_retries
    /\ LastAttempt.kind \in FailureKinds

\* C30: generated_sql is absent as long as no attempt of the run parsed a
\* candidate, and otherwise holds the candidate parsed last, validated or
\* not; when the run ends with status error after a candidate was rejected
\* it holds a rejected candidate that was never executed, also when the
\* failure reported is that of a later attempt.
C30_GeneratedSqlIsLastParsed ==
    /\ ParsedAttempts = <<>> <=> result.generated_sql = None
    /\ ParsedAttempts # <<>> =>
           result.generated_sql = LastOf(ParsedAttempts).candidate
    /\ EndedInGeneration /\ ParsedAttempts # <<>> =>
           /\ LastOf(ParsedAttempts).kind = "SecurityError"
           /\ FailingRules(result.generated_sql[1]) # {}
           /\ exec_calls = <<>>

\* a run that ended on a generation error while generated_sql holds the
\* candidate rejected in its first attempt, after another was rejected too
C30_Witness ==
    /\ EndedInGeneration
    /\ attempts[1].kind = "SecurityError"
    /\ attempts[2].kind = "SecurityError"
    /\ attempts[1].candidate # attempts[2].candidate
    /\ attempts[3].kind = "LLMGenerationError"
    /\ result.generated_sql = attempts[2].candidate
    /\ result.error = Some(ErrorText("LLMGenerationError",
                                     attempts[3].error[1]))

-----------------------------------------------------------------------------
(* Properties of SQLParser.parse, under SpecParser.                         *)

\* positions j at which a markup tag that opens at position i closes: a
\* name between angle brackets, with or without a slash before it
TagCloses(s, i) ==
    {j \in (i + 2)..Len(s) :
        /\ s[i] = "<"
        /\ s[j] = ">"
        /\ LET first == IF s[i + 1] = "/" THEN i + 2 ELSE i + 1
           IN  /\ first < j
               /\ \A k \in first..(j - 1) : IsWordChar(s[k])}

HasMarkupTag(s) == \E i \in 1..Len(s) : TagCloses(s, i) # {}

\* s without its markup tags, from position i on
RECURSIVE WithoutMarkup(_, _)
WithoutMarkup(s, i) ==
    IF i > Len(s) THEN <<>>
    ELSE IF TagCloses(s, i) # {}
         THEN WithoutMarkup(s, Min(TagCloses(s, i)) + 1)
         ELSE <<s[i]>> \o WithoutMarkup(s, i + 1)

HasPrefix(s) == StartsWith(Lower(Strip(s)), SqlQueryPrefix)

\* the trimmed text without a leading 'SQL Query:'
WithoutPrefix(s) ==
    IF HasPrefix(s)
    THEN Strip(Slice(Strip(s), Len(SqlQueryPrefix) + 1, Len(Strip(s))))
    ELSE Strip(s)

\* C27: parse returns the stripped content of the first sql fenced block if
\* there is one, else that of the first generic fenced block, else the
\* trimmed text without a leading 'SQL Query:' and without markup tags; a
\* text with no fence, no prefix and no markup tag, such as a query with
\* comparison operators, comes back trimmed and otherwise unchanged.
C27_ParseExtractsQuery ==
    v_verdict # None =>
        LET sql_block == FencedBlock(v_query, FenceSql)
            code_block == FencedBlock(v_query, FenceOpen)
        IN  /\ sql_block # None => v_verdict[1] = Strip(sql_block[1])
            /\ sql_block = None /\ code_block # None =>
                   v_verdict[1] = Strip(code_block[1])
            /\ sql_block = None /\ code_block = None =>
                   /\ v_verdict[1] =
                          Strip(WithoutMarkup(WithoutPrefix(v_query), 1))
                   /\ ~HasPrefix(v_query) /\ ~HasMarkupTag(v_query) =>
                          v_verdict[1] = Strip(v_query)

-----------------------------------------------------------------------------
(* Termination of a call of process_query, under SpecFair.                  *)

Terminal == {"returned", "raised"}

InCall == {"retrieve", "prompt", "generate", "execute"}

\* C28: a call of process_query whose collaborators return or raise comes
\* to an end, returning a result or raising; the loop makes at most 3
\* generation attempts, each of which ends the loop or counts as one more
\* attempt with the loop going on only below 3, and from the execution the
\* call goes nowhere but to its end.
C28_CallTerminates ==
    /\ (pc \in InCall) ~> (pc \in Terminal)
    /\ [](Len(gen_calls) <= 3 /\ current_try <= 3)
    /\ [][pc = "generate" =>
            /\ current_try' = current_try + 1
            /\ pc' \in {"generate", "execute", "returned"}
            /\ pc' = "generate" => current_try' < 3]_vars
    /\ [][pc = "execute" => pc' \in Terminal]_vars

\* a call that used its three attempts, the third for a candidate that
\* passed and was executed, and then returned
C28_Witness ==
    /\ pc = "returned"
    /\ Len(gen_calls) = 3
    /\ Len(attempts) = 3
    /\ attempts[3].kind = "validated"
    /\ Len(exec_calls) = 1

-----------------------------------------------------------------------------
(* Properties of concurrent calls of process_query, under SpecConcurrent.   *)

\* the frame of call c, running or suspended
FrameOf(c) == IF Running = c THEN Locals ELSE parked.locals

\* the result of a call holds one generation step for each attempt of that
\* call in which generate returned, and the question of that call
OwnTrace(f) ==
    /\ Cardinality(GenerationSteps(f.result.steps)) =
           Cardinality({i \in 1..Len(f.attempts) :
                          f.attempts[i].candidate # None})
    /\ f.pc # "idle" => f.result.question = Question_ok

\* C26: calls of process_query that run concurrently on one orchestrator do
\* not interfere: each has its own result and step trace, none changes the
\* table set or the column map of the validator, and a call given the same
\* answers by the collaborators ends with the status, generated_sql and
\* steps it ends with when it runs alone.
C26_ConcurrentCallsIndependent ==
    /\ [](prev_run # None =>
            /\ OwnTrace(FrameOf("A"))
            /\ OwnTrace(FrameOf("B"))
            /\ FrameOf("A").pc \in Terminal =>
                  /\ FrameOf("A").pc = prev_run[1].pc
                  /\ FrameOf("A").result.status = prev_run[1].result.status
                  /\ FrameOf("A").result.generated_sql =
                         prev_run[1].result.generated_sql
                  /\ FrameOf("A").result.steps = prev_run[1].result.steps)
    /\ [][table_names' = table_names /\ column_map' = column_map]_vars

\* call A has ended after two attempts or more while call B, made after A
\* began, is between its first and its second attempt
C26_Witness ==
    /\ prev_run # None
    /\ FrameOf("A").pc = "returned"
    /\ Len(FrameOf("A").attempts) >= 2
    /\ FrameOf("A").result.steps = prev_run[1].result.steps
    /\ Running = "B"
    /\ pc = "generate"
    /\ Len(attempts) = 1


====
